---- MODULE Spec2Model ----
(***************************************************************************)
(* BYOG financial engine (backend/optimizer/byog_engine.py), its optimizer *)
(* shell (backend/optimizer/byog_optimizer.py) and the two endpoints that  *)
(* serve them (backend/main.py).                                           *)
(*                                                                         *)
(* Python objects live on a heap: a dict or a list is an object with an    *)
(* address, and a slot holds either a scalar or a reference.  Aliasing,    *)
(* shallow copies and deep copies are therefore different things here, as  *)
(* they are in the program.                                                *)
(*                                                                         *)
(* Numbers are fixed point:                                                *)
(*   - MW leaves are held in units of 0.001 MW, so the 1e-3 tolerance of   *)
(*     the tier-sum guardrail is 1 unit and EPSILON (1e-9) is below the    *)
(*     resolution;                                                         *)
(*   - money is held in thousands of USD, lease rates in thousands of USD  *)
(*     per MW-month;                                                       *)
(*   - percentages and other dimensionless leaves are held in units of     *)
(*     1e-4 (12.0 is 120000, 0.12 is 1200); rates of return are held in    *)
(*     units of 1e-3.                                                      *)
(***************************************************************************)
EXTENDS Integers, Sequences, FiniteSets, TLC

(***************************************************************************)
(* Values and the heap                                                     *)
(***************************************************************************)
Num(n) == [t |-> "num", n |-> n]
Str(s) == [t |-> "str", s |-> s]
Bool(b) == [t |-> "bool", b |-> b]
Ref(a) == [t |-> "ref", a |-> a]
NoneV == [t |-> "none"]

\* A dict (pure tree node, or heap object when its slots hold Ref values).
Dict(d) == [t |-> "dict", d |-> d]
\* A list, likewise.
List(l) == [t |-> "list", l |-> l]

EmptyMap == [x \in {} |-> NoneV]

PutKey(f, k, v) == (k :> v) @@ f

\* The value v, computed once x is: x is what the statement before gave.
After(x, v) == <<x, v>>[2]

Max(a, b) == IF a >= b THEN a ELSE b
Min(a, b) == IF a <= b THEN a ELSE b
Abs(a) == IF a >= 0 THEN a ELSE -a

IsDict(h, v) == v.t = "ref" /\ h[v.a].t = "dict"

\* dict.get(key, default) and dict[key]
Get(h, a, k, default) == IF k \in DOMAIN h[a].d THEN h[a].d[k] ELSE default
GetItem(h, a, k) == h[a].d[k]
\* dict[key] = value
SetItem(h, a, k, v) == [h EXCEPT ![a] = Dict(PutKey(h[a].d, k, v))]

RECURSIVE Store(_, _), StoreFields(_, _, _, _), StoreList(_, _, _, _),
          StoreField(_, _, _, _, _), StoreItem(_, _, _, _)
\* Building a fresh object graph from a literal (a dict display, model_dump):
\* every dict and list of the tree becomes a new heap object.
Store(h, tr) ==
    IF tr.t = "dict"
    THEN LET r == StoreFields(h, tr.d, DOMAIN tr.d, EmptyMap)
         IN  [h |-> Append(r.h, Dict(r.d)), v |-> Ref(Len(r.h) + 1)]
    ELSE IF tr.t = "list"
    THEN LET r == StoreList(h, tr.l, 1, <<>>)
         IN  [h |-> Append(r.h, List(r.l)), v |-> Ref(Len(r.h) + 1)]
    ELSE [h |-> h, v |-> tr]

StoreFields(h, src, keys, acc) ==
    IF keys = {} THEN [h |-> h, d |-> acc]
    ELSE StoreField(src, keys, acc, CHOOSE x \in keys : TRUE,
                    Store(h, src[CHOOSE x \in keys : TRUE]))

\* The field k once its value is stored as r; the heap only grows.
StoreField(src, keys, acc, k, r) ==
    IF Len(r.h) < 0 THEN r
    ELSE StoreFields(r.h, src, keys \ {k}, PutKey(acc, k, r.v))

StoreList(h, src, i, acc) ==
    IF i > Len(src) THEN [h |-> h, l |-> acc]
    ELSE StoreItem(src, i, acc, Store(h, src[i]))

\* The item i once its value is stored as r.
StoreItem(src, i, acc, r) ==
    IF Len(r.h) < 0 THEN r
    ELSE StoreList(r.h, src, i + 1, Append(acc, r.v))

RECURSIVE Contents(_, _)
\* The value an object graph holds, read out as a pure tree (what == compares).
Contents(h, v) ==
    IF v.t # "ref" THEN v
    ELSE LET o == h[v.a]
         IN  IF o.t = "dict"
             THEN Dict([k \in DOMAIN o.d |-> Contents(h, o.d[k])])
             ELSE List([i \in 1..Len(o.l) |-> Contents(h, o.l[i])])

\* An assignment in place of a copy: the same object.
Alias(h, v) == [h |-> h, v |-> v]

\* copy.deepcopy: a fresh object graph with the same contents.
deepcopy(h, v) == Store(h, Contents(h, v))

(***************************************************************************)
(* The built-in default tree (the sections and leaves the engine model     *)
(* reads or writes), in the fixed-point units given above.                 *)
(***************************************************************************)
DEFAULT_BYOC_INPUTS ==
    Dict([
      site_land |-> Dict([
          land_parcel_size_acres |-> Num(100000)]),
      data_center |-> Dict([
          total_it_capacity_mw |-> Num(100000),
          construction_cost_per_kw_usd |-> Num(8000),
          ffe_usd |-> Num(2000),
          owners_costs_usd |-> Num(5000),
          contingency_pct |-> Num(100000)]),
      load_profile |-> Dict([
          peak_it_load_mw |-> Num(90000),
          min_operating_load_mw |-> Num(30000),
          load_factor |-> Num(8500)]),
      curtailment |-> Dict([
          tiers |-> List(<<
              Dict([name |-> Str("tier4"), mw |-> Num(20000)]),
              Dict([name |-> Str("tier3"), mw |-> Num(20000)]),
              Dict([name |-> Str("tier2"), mw |-> Num(15000)]),
              Dict([name |-> Str("tier1"), mw |-> Num(35000)]) >>)]),
      firmness |-> Dict([
          base_firm_generation_requirement_pct |-> Num(850000),
          planning_reserve_margin_pct |-> Num(150000)]),
      resource_costs |-> Dict([
          solar |-> Dict([
              capacity_factor_pct |-> Num(250000),
              land_requirement_acres_per_mw |-> Num(7000),
              elcc |-> Num(3000)]),
          battery |-> Dict([
              duration_hours |-> Num(4000),
              elcc |-> Num(9000)]),
          natural_gas |-> Dict([
              heat_rate_mmbtu_per_mwh |-> Num(9500),
              fuel_cost_usd_per_mmbtu |-> Num(4),
              fuel_price_escalation_pct |-> Num(25000),
              elcc |-> Num(9200)]),
          esa_grid |-> Dict([
              available |-> Bool(TRUE),
              max_capacity_mw |-> Num(50000),
              transmission_import_limit_mw |-> Num(50000),
              elcc |-> Num(10000)])]),
      revenue |-> Dict([
          leasable_it_capacity_mw |-> Num(90000),
          revenue_model_type |-> Str("wholesale"),
          base_lease_rate_wholesale_usd_per_mw_month |-> Num(120),
          base_lease_rate_colo_usd_per_kw_month |-> Num(150),
          contract_escalation_rate_pct |-> Num(25000),
          absorption_period_years |-> Num(2),
          stabilized_occupancy_pct |-> Num(950000),
          dynamic_lease_pricing_enabled |-> Bool(TRUE),
          target_irr_buffer_pct |-> Num(10000),
          max_lease_rate_usd_per_mw_month |-> Num(600)]),
      opex |-> Dict([
          base_facility_ops_usd_per_mw_year |-> Num(50),
          property_tax_rate_pct |-> Num(10000),
          insurance_usd_per_mw_year |-> Num(8),
          asset_mgmt_fee_pct |-> Num(20000),
          other_ga_usd_per_year |-> Num(500),
          opex_escalation_rate_pct |-> Num(25000)]),
      analysis |-> Dict([
          required_equity_return_pct |-> Num(120000),
          discount_rate_pct |-> Num(100000),
          analysis_period_years |-> Num(25),
          general_inflation_rate_pct |-> Num(25000)])
    ])

\* The heap as the module leaves it at import: the default tree and nothing else.
ImportHeap == Store(<<>>, DEFAULT_BYOC_INPUTS).h
\* Address of the DEFAULT_BYOC_INPUTS dict (the last object Store allocates).
DefaultRoot == Len(ImportHeap)

(***************************************************************************)
(* CalculationClass: construction                                          *)
(***************************************************************************)
\* payload.get(section, {}): the address of the payload's own dict; 0 stands
\* for the new empty dict, which nothing stores and nothing writes.
SectionOf(h, payload, section) ==
    IF section \in DOMAIN h[payload].d THEN h[payload].d[section].a ELSE 0

\* The keys of a section fetched with SectionOf.
KeysOf(h, a) == IF a = 0 THEN {} ELSE DOMAIN h[a].d

RECURSIVE _deep_merge(_, _, _), MergeItems(_, _, _, _), MergeItem(_, _, _, _)
\* The loop of _deep_merge over override.items(); merged is the new dict and
\* keys are the keys of override still to visit.
MergeItems(h, merged, override, keys) ==
    IF keys = {} \/ keys \cap DOMAIN h[override].d = {} THEN h
    ELSE MergeItems(MergeItem(h, merged, override, CHOOSE x \in keys : TRUE),
                    merged, override, keys \ {CHOOSE x \in keys : TRUE})

\* merged[key] = _deep_merge(merged[key], value)
MergeInto(merged, key, r) == SetItem(r.h, merged, key, Ref(r.a))

\* merged[key] = value, whatever merged holds at the key.
MergeItemReplace(h, merged, override, key) == SetItem(h, merged, key, h[override].d[key])

\* One pass of that loop: a dict over a dict is merged, anything else is stored
\* as it is (the override's own object, when it is a dict or a list).
MergeItem(h, merged, override, key) ==
    IF IsDict(h, h[override].d[key]) /\ IsDict(h, Get(h, merged, key, NoneV))
    THEN MergeInto(merged, key, _deep_merge(h, h[merged].d[key].a, h[override].d[key].a))
    ELSE SetItem(h, merged, key, h[override].d[key])

\* merged = dict(base) is a shallow copy: the new dict's slots hold the same
\* references as base's.
_deep_merge(h, base, override) ==
    [ h |-> MergeItems(Append(h, Dict(h[base].d)), Len(h) + 1, override, KeysOf(h, override)),
      a |-> Len(h) + 1 ]

\* model[section][leaf] = float(src[key]) when src.get(key) is not None
Bridge(h, src, key, target, leaf) ==
    IF Get(h, src, key, NoneV).t = "none" THEN h
    ELSE SetItem(h, target, leaf, h[src].d[key])

RECURSIVE SumMw(_, _, _, _)
\* sum(float(t.get("mw", 0.0)) for t in tiers if t is not skip); skip = 0 sums all.
SumMw(h, tiers, i, skip) ==
    IF i > Len(h[tiers].l) THEN 0
    ELSE (IF h[tiers].l[i].a = skip THEN 0 ELSE Get(h, h[tiers].l[i].a, "mw", Num(0)).n)
         + SumMw(h, tiers, i + 1, skip)

\* next((t for t in tiers if t.get("name") == "tier1"), None); 0 stands for None.
FindTier1(h, tiers) ==
    LET hits == {i \in 1..Len(h[tiers].l) :
                    Get(h, h[tiers].l[i].a, "name", NoneV) = Str("tier1")}
    IN  IF hits = {} THEN 0
        ELSE h[tiers].l[CHOOSE i \in hits : \A j \in hits : i <= j].a

\* tier1["mw"] = max(peak_mw - tier_total, 0.0): tier1 counted among the others.
SetTier1FromTotal(h, tiers, tier1, peak_mw) ==
    IF tier1 = 0 THEN h
    ELSE SetItem(h, tier1, "mw", Num(Max(peak_mw - SumMw(h, tiers, 1, 0), 0)))

\* tier1["mw"] = max(peak_mw - other_total, 0.0)
SetTier1(h, tiers, tier1, peak_mw) ==
    IF tier1 = 0 THEN h
    ELSE SetItem(h, tier1, "mw", Num(Max(peak_mw - SumMw(h, tiers, 1, tier1), 0)))

\* Lines 211-218: the tier1 reconciliation.
ReconcileTiers(h, model) ==
    LET peak_mw == GetItem(h, GetItem(h, model, "load_profile").a, "peak_it_load_mw").n
        tiers == GetItem(h, GetItem(h, model, "curtailment").a, "tiers").a
    IN  IF peak_mw > 0 /\ Abs(SumMw(h, tiers, 1, 0) - peak_mw) > 1
        THEN SetTier1(h, tiers, FindTier1(h, tiers), peak_mw)
        ELSE h

\* model["data_center"]["total_it_capacity_mw"] = max(model[...].get(..., peak_mw), peak_mw)
RaiseTotalIt(h, dc, peak_mw) ==
    SetItem(h, dc, "total_it_capacity_mw",
            Num(Max(Get(h, dc, "total_it_capacity_mw", Num(peak_mw)).n, peak_mw)))

\* Lines 179-186: site_context bridge.
BridgeSite(h, model, site) ==
    IF KeysOf(h, site) = {} \/ Get(h, site, "facility_peak_load_kw", Num(0)).n <= 0 THEN h
    ELSE RaiseTotalIt(
            SetItem(h, GetItem(h, model, "load_profile").a, "peak_it_load_mw",
                    h[site].d["facility_peak_load_kw"]),
            GetItem(h, model, "data_center").a,
            h[site].d["facility_peak_load_kw"].n)

\* model["resource_costs"]["natural_gas"].setdefault("seed_nameplate_mw", gen_mw)
SeedNameplate(h, gas, gen_mw) ==
    IF gen_mw > 0 /\ "seed_nameplate_mw" \notin DOMAIN h[gas].d
    THEN SetItem(h, gas, "seed_nameplate_mw", Num(gen_mw))
    ELSE h

\* Lines 189-203 on the natural_gas dict of the model.
BridgeGas(h, gas, asset) ==
    Bridge(
      Bridge(
        Bridge(SeedNameplate(h, gas, Get(h, asset, "nameplate_capacity_kw", Num(0)).n),
               asset, "fuel_price_usd_per_mmbtu", gas, "fuel_cost_usd_per_mmbtu"),
        asset, "fuel_escalator_pct", gas, "fuel_price_escalation_pct"),
      asset, "heat_rate_btu_kwh", gas, "heat_rate_mmbtu_per_mwh")

\* Lines 188-203: asset_parameters bridge.
BridgeAsset(h, model, asset) ==
    IF KeysOf(h, asset) = {} THEN h
    ELSE BridgeGas(h, GetItem(h, GetItem(h, model, "resource_costs").a, "natural_gas").a, asset)

\* Lines 205-209: financial_assumptions bridge.
BridgeFin(h, model, fin) ==
    IF KeysOf(h, fin) = {} THEN h
    ELSE Bridge(
            Bridge(h, fin, "discount_rate_pct", GetItem(h, model, "analysis").a,
                   "discount_rate_pct"),
            fin, "inflation_rate_pct", GetItem(h, model, "analysis").a,
            "general_inflation_rate_pct")

\* Lines 177-209 on the merged model m = [h, a]: the three bridges.
Bridges(m, payload) ==
    BridgeFin(
      BridgeAsset(
        BridgeSite(m.h, m.a, SectionOf(m.h, payload, "site_context")),
        m.a, SectionOf(m.h, payload, "asset_parameters")),
      m.a, SectionOf(m.h, payload, "financial_assumptions"))

\* Lines 178-220 on the merged model m = [h, a].
BridgeAll(m, payload) == [ h |-> ReconcileTiers(Bridges(m, payload), m.a), a |-> m.a ]

\* __init__ up to self.model: the overrides merged over the default tree, the
\* compatibility bridges applied and the tiers reconciled.
_build_model_inputs(h, payload) ==
    BridgeAll(_deep_merge(h, DefaultRoot, SectionOf(h, payload, "byoc_inputs")), payload)

\* The model's guardrail leaves, read as _validate_guardrails reads them.
Leaf(h, model, section, key) == GetItem(h, GetItem(h, model, section).a, key).n
TierSum(h, model) == SumMw(h, GetItem(h, GetItem(h, model, "curtailment").a, "tiers").a, 1, 0)
GasFuel(h, model) ==
    GetItem(h, GetItem(h, GetItem(h, model, "resource_costs").a, "natural_gas").a,
            "fuel_cost_usd_per_mmbtu").n

\* _validate_guardrails without its tier-sum check: C3 does not hold of it.
GuardrailsWithoutTierSum(h, model) ==
    IF Leaf(h, model, "load_profile", "peak_it_load_mw")
         > Leaf(h, model, "data_center", "total_it_capacity_mw")
    THEN "peak_it_load_mw must be <= total_it_capacity_mw"
    ELSE IF Leaf(h, model, "load_profile", "min_operating_load_mw")
              > Leaf(h, model, "load_profile", "peak_it_load_mw")
    THEN "min_operating_load_mw must be <= peak_it_load_mw"
    ELSE IF Leaf(h, model, "revenue", "leasable_it_capacity_mw")
              > Leaf(h, model, "data_center", "total_it_capacity_mw")
    THEN "leasable_it_capacity_mw must be <= total_it_capacity_mw"
    ELSE IF GasFuel(h, model) <= 0
    THEN "natural gas fuel_cost_usd_per_mmbtu must be > 0"
    ELSE "ok"

\* The message of the ValueError raised, or "ok".
_validate_guardrails(h, model) ==
    IF Leaf(h, model, "load_profile", "peak_it_load_mw")
         > Leaf(h, model, "data_center", "total_it_capacity_mw")
    THEN "peak_it_load_mw must be <= total_it_capacity_mw"
    ELSE IF Leaf(h, model, "load_profile", "min_operating_load_mw")
              > Leaf(h, model, "load_profile", "peak_it_load_mw")
    THEN "min_operating_load_mw must be <= peak_it_load_mw"
    ELSE IF Leaf(h, model, "revenue", "leasable_it_capacity_mw")
              > Leaf(h, model, "data_center", "total_it_capacity_mw")
    THEN "leasable_it_capacity_mw must be <= total_it_capacity_mw"
    ELSE IF Abs(TierSum(h, model) - Leaf(h, model, "load_profile", "peak_it_load_mw")) > 1
    THEN "curtailment tier MW values must sum to peak_it_load_mw"
    ELSE IF GasFuel(h, model) <= 0
    THEN "natural gas fuel_cost_usd_per_mmbtu must be > 0"
    ELSE "ok"

(***************************************************************************)
(* CalculationClass.run                                                    *)
(***************************************************************************)
\* A fraction in units of 1e-4: a value >= 1.0 is a percentage.
_normalize_pct(value) == IF value >= 10000 THEN value \div 100 ELSE value

\* Lines 384-387: the share of the firm requirement gas may cover, for the
\* value read from analysis.max_gas_backup_pct (1.0 when absent), in 1e-4.
MaxGasBackupPct(value) == Max(0, Min(10000, _normalize_pct(value)))

Sign(v) == IF v > 0 THEN 1 ELSE IF v < 0 THEN -1 ELSE 0

RECURSIVE NpvFrom(_, _, _, _)
\* sum(cf / (1 + rate) ** t for t, cf in enumerate(cashflows)), by Horner's rule:
\* acc is the value of the years after t, discounted to year t + 1; rate is in
\* units of 1e-3.  A partial sum is kept inside the range where the next
\* multiplication by 1000 stays a machine integer; the clamp keeps its sign.
NpvFrom(cashflows, rate, t, acc) ==
    IF t = 0 THEN acc
    ELSE IF acc > 2000000 THEN NpvFrom(cashflows, rate, t, 2000000)
    ELSE IF acc < -2000000 THEN NpvFrom(cashflows, rate, t, -2000000)
    ELSE NpvFrom(cashflows, rate, t - 1, cashflows[t] + (acc * 1000) \div (1000 + rate))

npv(cashflows, rate) == NpvFrom(cashflows, rate, Len(cashflows), 0)

BisectStepOtherSide(st, mid, mid_npv) ==
    IF Sign(mid_npv) = Sign(st.low_npv)
    THEN [low |-> st.low, high |-> mid, low_npv |-> st.low_npv,
          left |-> IF mid = st.high THEN 0 ELSE st.left - 1]
    ELSE [low |-> mid, high |-> st.high, low_npv |-> mid_npv,
          left |-> IF mid = st.low THEN 0 ELSE st.left - 1]

\* One pass of the for loop of _irr_bisection from the state st, with mid and
\* npv(mid).  `left` counts the passes still to run; `found` is set by the
\* return inside the loop.  Once low and high no longer move the remaining
\* passes repeat the same step, and none is left to run.
BisectStep(st, mid, mid_npv) ==
    IF mid_npv = 0
    THEN [low |-> mid, high |-> mid, low_npv |-> mid_npv, left |-> 0]
    ELSE IF Sign(mid_npv) = Sign(st.low_npv)
    THEN [low |-> mid, high |-> st.high, low_npv |-> mid_npv,
          left |-> IF mid = st.low THEN 0 ELSE st.left - 1]
    ELSE [low |-> st.low, high |-> mid, low_npv |-> st.low_npv,
          left |-> IF mid = st.high THEN 0 ELSE st.left - 1]

RECURSIVE Bisect(_, _)
\* The for loop of _irr_bisection and the return that follows it; the return
\* of mid inside the loop leaves low = high = mid.
Bisect(cashflows, st) ==
    IF st.left = 0 THEN (st.low + st.high) \div 2
    ELSE Bisect(cashflows, BisectStep(st, (st.low + st.high) \div 2,
                                      npv(cashflows, (st.low + st.high) \div 2)))

\* NoneV, or the rate found in [-0.99, 3.0] (units of 1e-3).
_irr_bisection(cashflows) ==
    IF Sign(npv(cashflows, -990)) = Sign(npv(cashflows, 3000)) THEN NoneV
    ELSE Num(Bisect(cashflows, [low |-> -990, high |-> 3000,
                                low_npv |-> npv(cashflows, -990), left |-> 200]))

RECURSIVE Escalate(_, _, _)
\* amount * (1 + esc) ** n
Escalate(amount, esc, n) ==
    IF n = 0 THEN amount ELSE Escalate((amount * (10000 + esc)) \div 10000, esc, n - 1)

\* Lines 356-358: the firm capacity required, peak * firm_pct * (1 + reserve).
gross_firm_req(peak_mw, firm_pct, reserve_pct) ==
    (((peak_mw * _normalize_pct(firm_pct)) \div 10000) * (10000 + _normalize_pct(reserve_pct))) \div 10000

\* Lines 366-371: the MW taken from the ESA grid.
esa_capacity(h, esa, gross) ==
    IF Get(h, esa, "available", Bool(TRUE)).b
    THEN Min(GetItem(h, esa, "max_capacity_mw").n,
             Min(GetItem(h, esa, "transmission_import_limit_mw").n, gross))
    ELSE 0

\* Lines 375-380: the solar MW deployed.  HOURS_PER_YEAR multiplies both the
\* demand and the yield of one MW, and is left out of both.
optimal_solar_mw(h, land, solar, peak_mw, load_factor) ==
    LET by_land == (GetItem(h, land, "land_parcel_size_acres").n * 1000)
                   \div Max(GetItem(h, solar, "land_requirement_acres_per_mw").n, 1)
        deployable == Max(Get(h, solar, "max_deployable_mw", Num(by_land)).n, 0)
        target == (peak_mw * load_factor)
                  \div Max(_normalize_pct(GetItem(h, solar, "capacity_factor_pct").n), 1)
    IN  Min(by_land, Min(deployable, target))

\* Line 388: the firm credit gas may take at most.
max_gas_elcc_allowed(gross, max_gas_backup_pct) ==
    (gross * max_gas_backup_pct) \div 10000

NoBatteryCredit(remaining_firm, gas_elcc) == 0

\* Lines 393-394: the firm credit of the battery, all that gas leaves open.
battery_elcc(remaining_firm, gas_elcc) == Max(remaining_firm - gas_elcc, 0)

\* Lines 372-373, 381-383 and 390-405 with the sizes of the ESA and solar
\* shares: the credits in the order ESA, solar, gas, battery.
Credits(gross, esa_mw, esa_share, solar_mw, solar_share, gas_share, battery_share, gas_pct, hours) ==
    LET esa_elcc == (esa_mw * esa_share) \div 10000
        after_esa == Max(gross - esa_elcc, 0)
        solar_elcc == (solar_mw * solar_share) \div 10000
        remaining_firm == Max(after_esa - solar_elcc, 0)
        gas_elcc == Min(remaining_firm, max_gas_elcc_allowed(gross, gas_pct))
        battery == battery_elcc(remaining_firm, gas_elcc)
        battery_power_mw == (battery * 10000) \div Max(battery_share, 1)
        total_firm_accredited == esa_elcc + solar_elcc + battery + gas_elcc
    IN  [ gross_firm_req |-> gross,
          esa_mw |-> esa_mw, esa_firm_accredited_mw |-> esa_elcc,
          solar_mw |-> solar_mw, solar_firm_accredited_mw |-> solar_elcc,
          remaining_firm |-> remaining_firm, max_gas_backup_pct |-> gas_pct,
          gas_firm_accredited_mw |-> gas_elcc,
          gas_mw |-> Max((gas_elcc * 10000) \div Max(gas_share, 1), 0),
          gas_elcc_share |-> gas_share,
          battery_firm_accredited_mw |-> battery,
          battery_power_mw |-> battery_power_mw,
          battery_energy_mwh |-> (battery_power_mw * hours) \div 1000,
          total_firm_accredited_mw |-> total_firm_accredited,
          coverage_ratio |-> (total_firm_accredited * 10000) \div Max(gross, 1) ]

\* Lines 641-658: the sizes and credits reported (the annual energies are not
\* in this model).
resource_mix(alloc) ==
    [ solar_mw |-> Num(alloc.solar_mw),
      solar_firm_accredited_mw |-> Num(alloc.solar_firm_accredited_mw),
      battery_power_mw |-> Num(alloc.battery_power_mw),
      battery_energy_mwh |-> Num(alloc.battery_energy_mwh),
      battery_firm_accredited_mw |-> Num(alloc.battery_firm_accredited_mw),
      gas_mw |-> Num(alloc.gas_mw),
      gas_firm_accredited_mw |-> Num(alloc.gas_firm_accredited_mw),
      esa_mw |-> Num(alloc.esa_mw),
      esa_firm_accredited_mw |-> Num(alloc.esa_firm_accredited_mw),
      total_firm_accredited_mw |-> Num(alloc.total_firm_accredited_mw),
      coverage_ratio |-> Num(alloc.coverage_ratio) ]

\* Lines 353-405: the priority allocation on the model.
Allocation(h, model) ==
    LET load == GetItem(h, model, "load_profile").a
        firm == GetItem(h, model, "firmness").a
        rc == GetItem(h, model, "resource_costs").a
        esa == GetItem(h, rc, "esa_grid").a
        solar == GetItem(h, rc, "solar").a
        battery == GetItem(h, rc, "battery").a
        gas == GetItem(h, rc, "natural_gas").a
        peak_mw == GetItem(h, load, "peak_it_load_mw").n
        gross == gross_firm_req(peak_mw,
                                GetItem(h, firm, "base_firm_generation_requirement_pct").n,
                                GetItem(h, firm, "planning_reserve_margin_pct").n)
    IN  Credits(gross,
                esa_capacity(h, esa, gross), GetItem(h, esa, "elcc").n,
                optimal_solar_mw(h, GetItem(h, model, "site_land").a, solar, peak_mw,
                                 GetItem(h, load, "load_factor").n),
                GetItem(h, solar, "elcc").n, GetItem(h, gas, "elcc").n,
                GetItem(h, battery, "elcc").n,
                MaxGasBackupPct(Get(h, GetItem(h, model, "analysis").a,
                                    "max_gas_backup_pct", Num(10000)).n),
                GetItem(h, battery, "duration_hours").n)

\* Line 346: land, preconstruction and power infrastructure of the default tree,
\* 2500 + 6020 + 19800 thousand USD.
powered_land_cost == 28320

\* Lines 313-351 and 428-442: what run() reads from the model before the cash
\* flows.  The assets the priority allocation sizes add no capex, power-cost
\* or curtailment term to the sums of this model.
RunInputs(h, model) ==
    LET dc == GetItem(h, model, "data_center").a
        rev == GetItem(h, model, "revenue").a
        opx == GetItem(h, model, "opex").a
        ana == GetItem(h, model, "analysis").a
        dc_construction == (GetItem(h, dc, "total_it_capacity_mw").n
                            * GetItem(h, dc, "construction_cost_per_kw_usd").n) \div 1000
        dc_subtotal == dc_construction + GetItem(h, dc, "ffe_usd").n
                       + GetItem(h, dc, "owners_costs_usd").n
        dc_cont == (dc_subtotal * _normalize_pct(GetItem(h, dc, "contingency_pct").n)) \div 10000
        hurdle_irr == _normalize_pct(Get(h, ana, "required_equity_return_pct", Num(120000)).n)
        target_buffer == _normalize_pct(Get(h, rev, "target_irr_buffer_pct", Num(10000)).n)
    IN  [ alloc |-> Allocation(h, model),
          period_years |-> GetItem(h, ana, "analysis_period_years").n,
          inflation |-> _normalize_pct(GetItem(h, ana, "general_inflation_rate_pct").n),
          total_project_cost |-> powered_land_cost + dc_subtotal + dc_cont,
          leasable |-> GetItem(h, rev, "leasable_it_capacity_mw").n,
          stabilized_occ |-> _normalize_pct(GetItem(h, rev, "stabilized_occupancy_pct").n),
          absorption |-> GetItem(h, rev, "absorption_period_years").n,
          contract_esc |-> _normalize_pct(GetItem(h, rev, "contract_escalation_rate_pct").n),
          opex_esc |-> _normalize_pct(GetItem(h, opx, "opex_escalation_rate_pct").n),
          facility_ops |-> GetItem(h, opx, "base_facility_ops_usd_per_mw_year").n,
          property_tax |-> _normalize_pct(GetItem(h, opx, "property_tax_rate_pct").n),
          insurance |-> GetItem(h, opx, "insurance_usd_per_mw_year").n,
          asset_fee |-> _normalize_pct(GetItem(h, opx, "asset_mgmt_fee_pct").n),
          other_ga |-> GetItem(h, opx, "other_ga_usd_per_year").n,
          base_lease_rate |->
              IF GetItem(h, rev, "revenue_model_type") = Str("colo")
              THEN GetItem(h, rev, "base_lease_rate_colo_usd_per_kw_month").n
              ELSE GetItem(h, rev, "base_lease_rate_wholesale_usd_per_mw_month").n,
          dynamic_lease_enabled |-> Get(h, rev, "dynamic_lease_pricing_enabled", Bool(TRUE)).b,
          hurdle_irr |-> hurdle_irr,
          target_buffer |-> target_buffer,
          target_irr |-> Max(hurdle_irr + target_buffer, hurdle_irr),
          max_lease |-> Get(h, rev, "max_lease_rate_usd_per_mw_month", Num(600)).n ]

\* The free cash flow of one year at a base lease rate (lines 452-497).
YearFcf(c, base_rate, year) ==
    LET occ == IF c.absorption <= 0 THEN c.stabilized_occ
               ELSE (Min((year * 10000) \div c.absorption, 10000) * c.stabilized_occ) \div 10000
        occupied_mw == (c.leasable * occ) \div 10000
        lease_rate_y == Escalate(base_rate, c.contract_esc, year - 1)
        gross_revenue == ((occupied_mw * lease_rate_y) \div 1000) * 12
        facility_ops == Escalate((c.facility_ops * occupied_mw) \div 1000, c.opex_esc, year - 1)
        property_taxes == (c.total_project_cost * c.property_tax) \div 10000
        insurance == Escalate((occupied_mw * c.insurance) \div 1000, c.opex_esc, year - 1)
        asset_fee == (gross_revenue * c.asset_fee) \div 10000
        other_ga == Escalate(c.other_ga, c.inflation, year - 1)
    IN  gross_revenue - (facility_ops + property_taxes + insurance + asset_fee + other_ga)

AddYearWhole(acc, year, year_fcf) ==
    [ rows |-> Append(acc.rows, [year |-> year, net_free_cash_flow |-> year_fcf,
                                 cumulative_cash_flow |-> acc.cumulative + year_fcf]),
      series |-> Append(acc.series, year_fcf),
      cumulative |-> acc.cumulative + year_fcf,
      payback |-> IF acc.payback = NoneV /\ acc.cumulative + year_fcf >= 0
                  THEN Num(year * 1000) ELSE acc.payback,
      positive_years |-> acc.positive_years + (IF year_fcf > 0 THEN 1 ELSE 0) ]

\* Lines 498-506 and 508-522: the bookkeeping of one year of build_cashflows.
AddYear(acc, year, year_fcf) ==
    [ rows |-> Append(acc.rows, [year |-> year, net_free_cash_flow |-> year_fcf,
                                 cumulative_cash_flow |-> acc.cumulative + year_fcf]),
      series |-> Append(acc.series, year_fcf),
      cumulative |-> acc.cumulative + year_fcf,
      payback |-> IF acc.payback = NoneV /\ acc.cumulative + year_fcf >= 0
                  THEN Num((year - 1) * 1000
                           + Max(0, Min(1000, ((-acc.cumulative) * 1000) \div Max(year_fcf, 1))))
                  ELSE acc.payback,
      positive_years |-> acc.positive_years + (IF year_fcf > 0 THEN 1 ELSE 0) ]

RECURSIVE CashYears(_, _, _, _)
\* The for loop of build_cashflows: acc is the state before year `year`.
CashYears(c, base_rate, year, acc) ==
    IF Len(acc.rows) >= c.period_years THEN acc
    ELSE CashYears(c, base_rate, year + 1, AddYear(acc, year, YearFcf(c, base_rate, year)))

\* Lines 444-524; payback is in units of 1e-3 year.
build_cashflows(c, base_rate) ==
    CashYears(c, base_rate, 1,
              [ rows |-> <<>>, series |-> <<-c.total_project_cost>>,
                cumulative |-> -c.total_project_cost, payback |-> NoneV,
                positive_years |-> 0 ])

\* What the calibration keeps of a priced rate; irr_val is the IRR with the
\* -0.99 sentinel standing for None.
Priced(base_rate, cf, irr) ==
    [ rate |-> base_rate, rows |-> cf.rows, series |-> cf.series,
      payback |-> cf.payback, positive_years |-> cf.positive_years,
      irr |-> irr, irr_val |-> IF irr = NoneV THEN -990 ELSE irr.n ]

WithIrr(base_rate, cf) == Priced(base_rate, cf, _irr_bisection(cf.series))

\* build_cashflows(rate) followed by _irr_bisection(series).
Scenario(c, base_rate) == WithIrr(base_rate, build_cashflows(c, base_rate))

\* max(1, int(period_years * 0.6))
YearsNeeded(c) == Max(1, (c.period_years * 6) \div 10)

\* irr_val >= target_irr and pos >= max(1, int(period_years * 0.6))
MeetsTargets(c, sc) ==
    sc.irr_val * 10 >= c.target_irr /\ sc.positive_years >= YearsNeeded(c)

\* Line 539.
NeedsLift(c, sc) ==
    sc.irr_val * 10 < c.target_irr \/ sc.positive_years < YearsNeeded(c)

\* hi = max(base * 1.25, base + 10_000.0)
FirstHi(base) == Max((base * 5) \div 4, base + 10)

\* Lines 557-561.
Better(best, sc) == IF sc.irr_val > best.irr_val THEN sc ELSE best

\* Lines 555-565 with the scenario priced at hi.  A pass that leaves hi no
\* higher is followed by passes that do the same: the loop does not end ("hang").
GrowPass(c, hi, best, sc) ==
    IF MeetsTargets(c, sc) THEN [ctl |-> "break", hi |-> hi, best |-> Better(best, sc)]
    ELSE IF (hi * 5) \div 4 <= hi
    THEN [ctl |-> "hang", hi |-> (hi * 5) \div 4, best |-> Better(best, sc)]
    ELSE [ctl |-> "grow", hi |-> (hi * 5) \div 4, best |-> Better(best, sc)]

GrowStepTwiceMax(c, hi, best) ==
    IF hi > 2 * c.max_lease THEN [ctl |-> "exit", hi |-> hi, best |-> best]
    ELSE GrowPass(c, hi, best, Scenario(c, hi))

\* One pass of the while loop of lines 552-565, from the state [hi, best]:
\* "exit" when the loop condition fails, "break" when the targets are met, else "grow".
GrowStep(c, hi, best) ==
    IF hi > c.max_lease THEN [ctl |-> "exit", hi |-> hi, best |-> best]
    ELSE GrowPass(c, hi, best, Scenario(c, hi))

RECURSIVE GrowLoop(_, _)
\* The whole while loop, from the state st the last pass left.
GrowLoop(c, st) ==
    IF st.ctl # "grow" THEN st ELSE GrowLoop(c, GrowStep(c, st.hi, st.best))

\* Lines 574-583 with the scenario priced at mid, from the state st; `left`
\* counts the steps still to run.  An interval that no longer moves repeats
\* the same step, and none is left to run.
BisectPass(c, st, sc) ==
    IF MeetsTargets(c, sc)
    THEN [lo |-> st.lo, hi |-> sc.rate, best |-> sc,
          left |-> IF sc.rate = st.hi THEN 0 ELSE st.left - 1]
    ELSE [lo |-> sc.rate, hi |-> st.hi, best |-> st.best,
          left |-> IF sc.rate = st.lo THEN 0 ELSE st.left - 1]

RECURSIVE BisectRate(_, _)
\* The 40 bisection steps of lines 570-583.
BisectRate(c, st) ==
    IF st.left = 0 THEN st.best
    ELSE BisectRate(c, BisectPass(c, st, Scenario(c, (st.lo + st.hi) \div 2)))

AdoptNone(c, base, best) ==
    [adopted |-> base, calibration_applied |-> FALSE, irr |-> base.irr]

\* Lines 585-590.
Adopt(c, base, best) ==
    IF best.rate > c.base_lease_rate
    THEN [adopted |-> best, calibration_applied |-> TRUE, irr |-> Num(best.irr_val)]
    ELSE [adopted |-> base, calibration_applied |-> FALSE, irr |-> base.irr]

\* Lines 567-590 after the growth loop ended with [hi, best].
Calibrate(c, base, grown) ==
    Adopt(c, base, BisectRate(c, [lo |-> c.base_lease_rate, hi |-> Min(grown.hi, c.max_lease),
                                  best |-> grown.best, left |-> 40]))

\* Lines 531-535 when no calibration runs.
Uncalibrated(base) == [adopted |-> base, calibration_applied |-> FALSE, irr |-> base.irr]

\* Line 592.
FinalIrr(fin) == IF fin.irr = NoneV THEN _irr_bisection(fin.adopted.series) ELSE fin.irr

\* Line 593; the IRR KPIs are held in units of 0.1 %.
IrrPct(irr) == IF irr # NoneV THEN irr.n ELSE 0

\* Lines 601-622: the KPIs.
Kpis(c, adopted, calibration_applied, irr_pct) ==
    [ project_irr_unlevered_pct |-> Num(irr_pct),
      project_irr_levered_pct |-> Num(irr_pct),
      simple_payback_years |-> adopted.payback,
      payback_period_years |-> adopted.payback,
      coverage_ratio |-> Num(c.alloc.coverage_ratio),
      firm_capacity_required_mw |-> Num(c.alloc.gross_firm_req),
      firm_capacity_available_mw |-> Num(c.alloc.total_firm_accredited_mw),
      total_project_cost_usd |-> Num(c.total_project_cost),
      min_dscr |-> Num(999),
      base_lease_rate_usd_per_mw_month |-> Num(c.base_lease_rate),
      applied_lease_rate_usd_per_mw_month |-> Num(adopted.rate),
      lease_rate_calibration_applied |-> Bool(calibration_applied),
      target_irr_pct |-> Num(c.target_irr),
      hurdle_irr_pct |-> Num(c.hurdle_irr),
      positive_cashflow_years |-> Num(adopted.positive_years) ]

\* Lines 592-675: simulation_results.
Report(c, fin) ==
    [ cash_flow_waterfall |-> fin.adopted.rows,
      calculation_breakdown |-> [resource_mix |-> resource_mix(c.alloc)],
      summary_kpis |-> Kpis(c, fin.adopted, fin.calibration_applied, IrrPct(FinalIrr(fin))) ]

Result(simulation_results) == [kind |-> "result", simulation_results |-> simulation_results]

\* Lines 567-675 once the growth loop is over; a loop that does not end gives
\* no result ("hang").
RunGrown(c, base, grown) ==
    IF grown.ctl = "hang" THEN [kind |-> "hang"]
    ELSE Result(Report(c, Calibrate(c, base, grown)))

\* Lines 537-675 with the base-rate scenario.
RunBase(c, base) ==
    IF c.dynamic_lease_enabled /\ NeedsLift(c, base)
    THEN RunGrown(c, base, GrowLoop(c, [ctl |-> "grow", hi |-> FirstHi(c.base_lease_rate),
                                        best |-> base]))
    ELSE Result(Report(c, Uncalibrated(base)))

RunFrom(c) == RunBase(c, Scenario(c, c.base_lease_rate))

\* run() on the model.
run(h, model) == RunFrom(RunInputs(h, model))

\* A ValueError of the guardrails, or what run() gives.
Outcome(b, verdict) ==
    IF verdict # "ok" THEN [kind |-> "ValueError", message |-> verdict]
    ELSE run(b.h, b.a)

Constructed(b) == [h |-> b.h, out |-> Outcome(b, _validate_guardrails(b.h, b.a))]

\* CalculationClass(payload).run() on the heap h: the heap it leaves and the outcome.
Engine(h, payload) == After(h, Constructed(_build_model_inputs(h, payload)))

(***************************************************************************)
(* OptimizerService                                                        *)
(***************************************************************************)
\* A dotted path, held as the sequence of its keys (path.split(".")).
PathStr(keys) == [t |-> "str", keys |-> keys]

RECURSIVE SetNested(_, _, _, _, _)
\* The loop of _set_nested from keys[i] on, current being the dict reached.
SetNested(h, current, keys, i, value) ==
    IF i = Len(keys) THEN SetItem(h, current, keys[i], value)
    ELSE IF keys[i] \in DOMAIN h[current].d /\ IsDict(h, h[current].d[keys[i]])
    THEN SetNested(h, h[current].d[keys[i]].a, keys, i + 1, value)
    ELSE SetNested(SetItem(Append(h, Dict(EmptyMap)), current, keys[i], Ref(Len(h) + 1)),
                   Len(h) + 1, keys, i + 1, value)

\* The heap after _set_nested(payload, path, value).
_set_nested(h, payload, path, value) == SetNested(h, payload, path, 1, value)

\* simulation.get("simulation_results", {}).get("summary_kpis", {}).get(metric)
_get_kpi(simulation, metric) ==
    IF metric \in DOMAIN simulation.simulation_results.summary_kpis
    THEN simulation.simulation_results.summary_kpis[metric]
    ELSE NoneV

RECURSIVE FirstMissing(_, _, _)
\* The first of the keys, read in this order by d[key], that d does not have: the
\* key of the KeyError, or "" when every key is there.
FirstMissing(d, keys, i) ==
    IF i > Len(keys) THEN ""
    ELSE IF keys[i] \notin DOMAIN d THEN keys[i]
    ELSE FirstMissing(d, keys, i + 1)

KeyError(key) == [kind |-> "KeyError", message |-> key]
ValueError(message) == [kind |-> "ValueError", message |-> message]
Truth(b) == [kind |-> "bool", b |-> b]

\* Lines 52-62; "equal" allows 1e-6, which is below the resolution.
Compare(op, value, target) ==
    IF op = "less_than" THEN Truth(value < target)
    ELSE IF op = "less_than_equal" THEN Truth(value <= target)
    ELSE IF op = "greater_than" THEN Truth(value > target)
    ELSE IF op = "greater_than_equal" THEN Truth(value >= target)
    ELSE IF op = "equal" THEN Truth(Abs(value - target) <= 0)
    ELSE ValueError("Unsupported constraint operator")

\* Lines 48-50 and on, with the KPI read.
ConstraintOn(value, constraint) ==
    IF value = NoneV THEN Truth(FALSE)
    ELSE Compare(constraint.operator.s, value.n, constraint.value.n)

\* The bool returned or the exception raised; constraint is the dict.
_constraint_passes(simulation, constraint) ==
    IF FirstMissing(constraint, <<"metric", "operator", "value">>, 1) # ""
    THEN KeyError(FirstMissing(constraint, <<"metric", "operator", "value">>, 1))
    ELSE ConstraintOn(_get_kpi(simulation, constraint.metric.s), constraint)

RECURSIVE _all_constraints_pass(_, _, _), AllAfter(_, _, _, _)
\* all(...) stops at the first constraint that does not pass.
AllAfter(simulation, constraints, i, passed) ==
    IF passed.kind # "bool" THEN passed
    ELSE IF ~passed.b THEN passed
    ELSE _all_constraints_pass(simulation, constraints, i + 1)

\* all(self._constraint_passes(simulation, c) for c in constraints), from the
\* i-th constraint on.
_all_constraints_pass(simulation, constraints, i) ==
    IF i > Len(constraints) THEN Truth(TRUE)
    ELSE AllAfter(simulation, constraints, i,
                  _constraint_passes(simulation, constraints[i].d))

\* CalculationClass(payload).run()
_evaluate(h, payload) == Engine(h, payload)

Slots(obj) ==
    IF obj.t = "dict" THEN {obj.d[k] : k \in DOMAIN obj.d}
    ELSE {obj.l[i] : i \in DOMAIN obj.l}

RECURSIVE Reach(_, _)
\* The objects a value is made of.
Reach(h, v) ==
    IF v.t # "ref" THEN {}
    ELSE {v.a} \cup UNION {Reach(h, x) : x \in Slots(h[v.a])}

\* What is kept of one call of _evaluate: the candidate's values, the payload
\* as it is handed to the engine, the objects it is made of, and the outcome.
Evaluation(h, payload, point, out) ==
    [ point |-> point,
      payload |-> Contents(h, Ref(payload)),
      objects |-> Reach(h, Ref(payload)),
      out |-> out ]

\* A job that ended: the heap, the evaluations made and the value returned or
\* the exception raised.
Job(h, log, out) == [h |-> h, log |-> log, out |-> out]

\* tolerance defaults to 0.01 in the units of the KPI: 10 for a KPI in years
\* (held in units of 1e-3), below the resolution of the others.
DefaultTolerance(metric) ==
    IF metric \in {"simple_payback_years", "payback_period_years"} THEN 10 ELSE 0

\* Line 92.
DefaultMaxIterations == 50

\* Lines 85-92: the job as the loop uses it.
GoalOf(job) ==
    [ metric |-> job.target_variable.s,
      target |-> job.target_value.n,
      path |-> job.decision_variable.d.path.keys,
      min |-> job.decision_variable.d.min.n,
      max |-> job.decision_variable.d.max.n,
      tol |-> IF "tolerance" \in DOMAIN job.decision_variable.d
              THEN job.decision_variable.d.tolerance.n
              ELSE DefaultTolerance(job.target_variable.s),
      max_iter |-> IF "max_iterations" \in DOMAIN job.decision_variable.d
                   THEN job.decision_variable.d.max_iterations.n
                   ELSE DefaultMaxIterations ]

\* The key of the KeyError of lines 85-90, or "".
GoalSeekMissing(job) ==
    IF FirstMissing(job, <<"target_variable", "target_value", "decision_variable">>, 1) # ""
    THEN FirstMissing(job, <<"target_variable", "target_value", "decision_variable">>, 1)
    ELSE FirstMissing(job.decision_variable.d, <<"path", "min", "max">>, 1)

\* SeekStep with `err <= best[0]` for `err < best[0]`: among evaluations of
\* equal error the latest is kept.
SeekStepLatest(g, st, mid, payload, e, kpi) ==
    [ h |-> e.h,
      lo |-> IF kpi > g.target THEN mid ELSE st.lo,
      hi |-> IF kpi > g.target THEN st.hi ELSE mid,
      best |-> IF st.best = NoneV \/ Abs(kpi - g.target) <= st.best.err
               THEN [err |-> Abs(kpi - g.target), mid |-> mid, payload |-> payload,
                     sim |-> e.out]
               ELSE st.best,
      log |-> st.log,
      left |-> st.left - 1,
      done |-> Abs(kpi - g.target) <= g.tol,
      raised |-> FALSE,
      out |-> NoneV ]

\* SeekStep with `kpi < target_value` for `kpi > target_value`: lo moves up
\* when the KPI is below the target.
SeekStepUp(g, st, mid, payload, e, kpi) ==
    [ h |-> e.h,
      lo |-> IF kpi < g.target THEN mid ELSE st.lo,
      hi |-> IF kpi < g.target THEN st.hi ELSE mid,
      best |-> IF st.best = NoneV \/ Abs(kpi - g.target) < st.best.err
               THEN [err |-> Abs(kpi - g.target), mid |-> mid, payload |-> payload,
                     sim |-> e.out]
               ELSE st.best,
      log |-> st.log,
      left |-> st.left - 1,
      done |-> Abs(kpi - g.target) <= g.tol,
      raised |-> FALSE,
      out |-> NoneV ]

\* Lines 105-116: the state of the loop after an evaluation at mid gave kpi.
SeekStep(g, st, mid, payload, e, kpi) ==
    [ h |-> e.h,
      lo |-> IF kpi > g.target THEN mid ELSE st.lo,
      hi |-> IF kpi > g.target THEN st.hi ELSE mid,
      best |-> IF st.best = NoneV \/ Abs(kpi - g.target) < st.best.err
               THEN [err |-> Abs(kpi - g.target), mid |-> mid, payload |-> payload,
                     sim |-> e.out]
               ELSE st.best,
      log |-> st.log,
      left |-> st.left - 1,
      done |-> Abs(kpi - g.target) <= g.tol,
      raised |-> FALSE,
      out |-> NoneV ]

\* Lines 101-116 with the KPI read from the simulation.
SeekKpi(g, st, mid, payload, e, kpi) ==
    IF kpi = NoneV
    THEN [st EXCEPT !.h = e.h, !.raised = TRUE,
                    !.out = ValueError("KPI not found in simulation output")]
    ELSE SeekStep(g, st, mid, payload, e, kpi.n)

\* Line 100 done: e is what _evaluate gave for the payload as h2 held it; an
\* exception of the engine leaves the loop and the job.
SeekSim(g, st, mid, payload, h2, e) ==
    IF e.out.kind # "result"
    THEN [st EXCEPT !.h = e.h, !.raised = TRUE, !.out = e.out,
                    !.log = Append(@, Evaluation(h2, payload, <<mid>>, e.out))]
    ELSE SeekKpi(g, [st EXCEPT !.log = Append(@, Evaluation(h2, payload, <<mid>>, e.out))],
                 mid, payload, e, _get_kpi(e.out, g.metric))

\* Line 100 on the heap h2 that _set_nested left.
SeekRun(g, st, mid, payload, h2) ==
    SeekSim(g, st, mid, payload, h2, _evaluate(h2, payload))

\* Lines 97-116: one pass of the loop at mid, with the deep copy made.
SeekAt(g, st, mid, candidate_payload) ==
    After(candidate_payload,
          SeekRun(g, st, mid, candidate_payload.v.a,
                  _set_nested(candidate_payload.h, candidate_payload.v.a, g.path, Num(mid))))

RECURSIVE SeekLoop(_, _, _)
\* for _ in range(max_iter), from the state st: `left` counts the passes still
\* to run, `done` is the break and `raised` an exception that left the loop.
SeekLoop(base, g, st) ==
    IF st.left <= 0 \/ st.done \/ st.raised THEN st
    ELSE SeekLoop(base, g, SeekAt(g, st, (st.lo + st.hi) \div 2, deepcopy(st.h, Ref(base))))

\* Lines 118-132.
SeekEnd(g, st) ==
    IF st.raised THEN Job(st.h, st.log, st.out)
    ELSE IF st.best = NoneV
    THEN Job(st.h, st.log, ValueError("Goal seek failed to find a candidate"))
    ELSE Job(st.h, st.log,
             [ kind |-> "result",
               body |-> [ optimization_job |->
                             [ mode |-> "single_variable_goal_seek",
                               target_variable |-> g.metric,
                               target_value |-> g.target,
                               decision_variable |-> g.path,
                               solved_value |-> st.best.mid ],
                          simulation_results |-> st.best.sim.simulation_results,
                          resolved_payload |-> Contents(st.h, Ref(st.best.payload)) ] ])

\* single_variable_goal_seek(job) of the service whose base_payload is at base.
single_variable_goal_seek(h, base, job) ==
    IF GoalSeekMissing(job) # "" THEN Job(h, <<>>, KeyError(GoalSeekMissing(job)))
    ELSE SeekEnd(GoalOf(job),
                 SeekLoop(base, GoalOf(job),
                          [ h |-> h, lo |-> GoalOf(job).min, hi |-> GoalOf(job).max,
                            best |-> NoneV, log |-> <<>>, left |-> GoalOf(job).max_iter,
                            done |-> FALSE, raised |-> FALSE, out |-> NoneV ]))

\* Lines 148-156 and 227-235: min, min + step, ... up to max.
RECURSIVE GridValues(_, _, _)
GridValues(v, stop, step) ==
    IF v > stop THEN <<>> ELSE <<v>> \o GridValues(v + step, stop, step)

\* The while loop of the grid does not end when the step does not advance v.
GridHangs(range) == range.step.n <= 0 /\ range.min.n <= range.max.n

build_values(range) == GridValues(range.min.n, range.max.n, range.step.n)

RECURSIVE ListsEnd(_, _)
\* How the value lists of the ranges items[i], items[i + 1], ... get built, one
\* after the other: the key of the KeyError of the first range that lacks one,
\* "hang" when the loop of a range before it does not end, "" when all are built.
ListsEnd(items, i) ==
    IF i > Len(items) THEN ""
    ELSE IF FirstMissing(items[i].d, <<"min", "max", "step">>, 1) # ""
    THEN FirstMissing(items[i].d, <<"min", "max", "step">>, 1)
    ELSE IF GridHangs(items[i].d) THEN "hang"
    ELSE ListsEnd(items, i + 1)

RECURSIVE RangesMissing(_, _)
\* The key of the KeyError of lines 147-150, or "".  decision_variables is held
\* as the list of its items, in the order of the dict; an item holds its key.
RangesMissing(items, i) ==
    IF i > Len(items) THEN ""
    ELSE IF FirstMissing(items[i].d, <<"min", "max", "step">>, 1) # ""
    THEN FirstMissing(items[i].d, <<"min", "max", "step">>, 1)
    ELSE RangesMissing(items, i + 1)

\* The key of the KeyError of lines 136-150, or "".
GridMissing(job) ==
    IF FirstMissing(job, <<"target_variable", "decision_variables">>, 1) # ""
    THEN FirstMissing(job, <<"target_variable", "decision_variables">>, 1)
    ELSE RangesMissing(job.decision_variables.l, 1)

\* Lines 136-156: the job as visit uses it.
GridOf(job) ==
    [ metric |-> job.target_variable.s,
      goal |-> IF "goal" \in DOMAIN job THEN job.goal.s ELSE "maximize",
      constraints |-> IF "constraints" \in DOMAIN job THEN job.constraints.l ELSE <<>>,
      var_names |-> [i \in DOMAIN job.decision_variables.l |->
                        job.decision_variables.l[i].d.key.keys],
      grids |-> [i \in DOMAIN job.decision_variables.l |->
                    build_values(job.decision_variables.l[i].d)] ]

\* Lines 186-194: the path of a decision variable in the payload.
PathOf(h, payload, key) ==
    IF Len(key) > 1 THEN key
    ELSE IF key[1] \in KeysOf(h, SectionOf(h, payload, "asset_parameters"))
    THEN <<"asset_parameters", key[1]>>
    ELSE <<"financial_assumptions", key[1]>>

\* Candidate(metric_value, copy.deepcopy(payload), simulation)
Candidate(vs, objective_value, copied, simulation) ==
    [vs EXCEPT !.h = copied.h,
               !.best = [ objective_value |-> objective_value,
                          payload |-> copied.v.a,
                          simulation |-> simulation ]]

\* GridBest with `>=` and `<=` for `>` and `<`: among candidates of equal KPI
\* the latest is kept.
GridBestLast(g, payload, vs, simulation, metric_value) ==
    IF metric_value = NoneV THEN vs
    ELSE IF \/ vs.best = NoneV
            \/ g.goal = "maximize" /\ metric_value.n >= vs.best.objective_value
            \/ g.goal = "minimize" /\ metric_value.n <= vs.best.objective_value
    THEN Candidate(vs, metric_value.n, deepcopy(vs.h, Ref(payload)), simulation)
    ELSE vs

\* Lines 170-182.
GridBest(g, payload, vs, simulation, metric_value) ==
    IF metric_value = NoneV THEN vs
    ELSE IF \/ vs.best = NoneV
            \/ g.goal = "maximize" /\ metric_value.n > vs.best.objective_value
            \/ g.goal = "minimize" /\ metric_value.n < vs.best.objective_value
    THEN Candidate(vs, metric_value.n, deepcopy(vs.h, Ref(payload)), simulation)
    ELSE vs

\* Lines 167-169 with the constraints judged.
GridJudge(g, payload, vs, simulation, passed) ==
    IF passed.kind # "bool" THEN [vs EXCEPT !.raised = TRUE, !.out = passed]
    ELSE IF ~passed.b THEN vs
    ELSE GridBest(g, payload, [vs EXCEPT !.feasible = @ + 1], simulation,
                  _get_kpi(simulation, g.metric))

\* Lines 165-166 with the simulation made on the heap h0.
GridLeaf(g, payload, point, vs, e) ==
    IF e.out.kind # "result"
    THEN [vs EXCEPT !.h = e.h, !.tested = @ + 1, !.raised = TRUE, !.out = e.out,
                    !.log = Append(@, Evaluation(vs.h, payload, point, e.out))]
    ELSE GridJudge(g, payload,
                   [vs EXCEPT !.h = e.h, !.tested = @ + 1,
                              !.log = Append(@, Evaluation(vs.h, payload, point, e.out))],
                   e.out, _all_constraints_pass(e.out, g.constraints, 1))

RECURSIVE visit(_, _, _, _, _), VisitEach(_, _, _, _, _, _), VisitValue(_, _, _, _, _, _, _)
\* Lines 195-197 with the deep copy made.
VisitValue(g, idx, payload, point, vs, v, candidate) ==
    After(candidate,
          visit(g, idx + 1, candidate.v.a, Append(point, v),
                [vs EXCEPT !.h = _set_nested(candidate.h, candidate.v.a,
                                             PathOf(vs.h, payload, g.var_names[idx]), Num(v))]))

\* for v in grids[idx], from its j-th value on; an exception ends the loop.
VisitEach(g, idx, payload, point, vs, j) ==
    IF j > Len(g.grids[idx]) \/ vs.raised THEN vs
    ELSE VisitEach(g, idx, payload, point,
                   VisitValue(g, idx, payload, point, vs, g.grids[idx][j],
                              deepcopy(vs.h, Ref(payload))),
                   j + 1)

\* visit(idx, payload); vs holds the heap, tested, feasible, best and the
\* evaluations so far.  idx counts from 1.
visit(g, idx, payload, point, vs) ==
    IF idx > Len(g.var_names) THEN GridLeaf(g, payload, point, vs, _evaluate(vs.h, payload))
    ELSE VisitEach(g, idx, payload, point, vs, 1)

\* best.payload.get(section, {})
SectionTree(h, payload, section) ==
    IF section \in DOMAIN h[payload].d THEN Contents(h, h[payload].d[section])
    ELSE Dict(EmptyMap)

\* Lines 201-218.
GridEnd(g, vs) ==
    IF vs.raised THEN Job(vs.h, vs.log, vs.out)
    ELSE IF vs.best = NoneV
    THEN Job(vs.h, vs.log, ValueError("No feasible solution found for optimization job"))
    ELSE Job(vs.h, vs.log,
             [ kind |-> "result",
               body |-> [ optimization_job |->
                             [ mode |-> "multi_variable",
                               target_variable |-> g.metric,
                               goal |-> g.goal,
                               tested_scenarios |-> vs.tested,
                               feasible_scenarios |-> vs.feasible,
                               objective_value |-> vs.best.objective_value ],
                          best_configuration |->
                             [ asset_parameters |->
                                   SectionTree(vs.h, vs.best.payload, "asset_parameters"),
                               financial_assumptions |->
                                   SectionTree(vs.h, vs.best.payload, "financial_assumptions") ],
                          simulation_results |-> vs.best.simulation.simulation_results ] ])

\* Line 199 with the first deep copy made.
GridFrom(g, copied) ==
    GridEnd(g, visit(g, 1, copied.v.a, <<>>,
                     [ h |-> copied.h, tested |-> 0, feasible |-> 0, best |-> NoneV,
                       log |-> <<>>, raised |-> FALSE, out |-> NoneV ]))

\* Lines 145-156: the loop of a range does not end, and no key was found
\* missing before that loop began.
GridStuck(job) ==
    /\ FirstMissing(job, <<"target_variable", "decision_variables">>, 1) = ""
    /\ ListsEnd(job.decision_variables.l, 1) = "hang"

\* multi_variable_optimize(job) of the service whose base_payload is at base.
multi_variable_optimize(h, base, job) ==
    IF GridStuck(job) THEN Job(h, <<>>, [kind |-> "hang"])
    ELSE IF GridMissing(job) # "" THEN Job(h, <<>>, KeyError(GridMissing(job)))
    ELSE IF Len(job.decision_variables.l) = 0
    THEN Job(h, <<>>, ValueError("No decision variables provided"))
    ELSE GridFrom(GridOf(job), deepcopy(h, Ref(base)))

\* The key of the KeyError of lines 222-238, or "".
HeatmapMissing(heatmap) ==
    IF FirstMissing(heatmap, <<"x_axis", "y_axis", "z_metric">>, 1) # ""
    THEN FirstMissing(heatmap, <<"x_axis", "y_axis", "z_metric">>, 1)
    ELSE IF FirstMissing(heatmap.x_axis.d, <<"min", "max", "step">>, 1) # ""
    THEN FirstMissing(heatmap.x_axis.d, <<"min", "max", "step">>, 1)
    ELSE FirstMissing(heatmap.y_axis.d, <<"min", "max", "step">>, 1)

\* Lines 222-238: the job as the loops use it.
HeatmapOf(heatmap) ==
    [ x_spec |-> heatmap.x_axis.d,
      y_spec |-> heatmap.y_axis.d,
      z_metric |-> heatmap.z_metric.s,
      x_values |-> build_values(heatmap.x_axis.d),
      y_values |-> build_values(heatmap.y_axis.d) ]

\* HeatPoint without the point of a simulation that lacks the KPI.
HeatPointKnown(hm, hs, x, y, h0, payload, e) ==
    IF e.out.kind # "result"
    THEN [hs EXCEPT !.h = e.h, !.raised = TRUE, !.out = e.out,
                    !.log = Append(@, Evaluation(h0, payload, <<x, y>>, e.out))]
    ELSE IF _get_kpi(e.out, hm.z_metric) = NoneV
    THEN [hs EXCEPT !.h = e.h,
                    !.log = Append(@, Evaluation(h0, payload, <<x, y>>, e.out))]
    ELSE [hs EXCEPT !.h = e.h,
                    !.log = Append(@, Evaluation(h0, payload, <<x, y>>, e.out)),
                    !.matrix = Append(@, [x |-> x, y |-> y,
                                          z |-> _get_kpi(e.out, hm.z_metric)])]

\* Lines 248-253.
HeatPoint(hm, hs, x, y, h0, payload, e) ==
    IF e.out.kind # "result"
    THEN [hs EXCEPT !.h = e.h, !.raised = TRUE, !.out = e.out,
                    !.log = Append(@, Evaluation(h0, payload, <<x, y>>, e.out))]
    ELSE [hs EXCEPT !.h = e.h,
                    !.log = Append(@, Evaluation(h0, payload, <<x, y>>, e.out)),
                    !.matrix = Append(@, [x |-> x, y |-> y,
                                          z |-> _get_kpi(e.out, hm.z_metric)])]

\* Line 247 on the heap that the two _set_nested left.
HeatRun(hm, hs, x, y, payload, h0) ==
    HeatPoint(hm, hs, x, y, h0, payload, _evaluate(h0, payload))

\* Lines 244-246 with the deep copy made; x_spec["path"] is read first.
HeatAt(hm, hs, x, y, copied) ==
    After(copied,
          IF "path" \notin DOMAIN hm.x_spec
          THEN [hs EXCEPT !.h = copied.h, !.raised = TRUE, !.out = KeyError("path")]
          ELSE IF "path" \notin DOMAIN hm.y_spec
          THEN [hs EXCEPT !.h = _set_nested(copied.h, copied.v.a, hm.x_spec.path.keys, Num(x)),
                          !.raised = TRUE, !.out = KeyError("path")]
          ELSE HeatRun(hm, hs, x, y, copied.v.a,
                       _set_nested(_set_nested(copied.h, copied.v.a, hm.x_spec.path.keys, Num(x)),
                                   copied.v.a, hm.y_spec.path.keys, Num(y))))

RECURSIVE HeatLoop(_, _, _, _, _)
\* for y in y_values: for x in x_values, from the pair (iy, ix) on.
HeatLoop(base, hm, hs, iy, ix) ==
    IF hs.raised \/ iy > Len(hm.y_values) THEN hs
    ELSE IF ix > Len(hm.x_values) THEN HeatLoop(base, hm, hs, iy + 1, 1)
    ELSE HeatLoop(base, hm,
                  HeatAt(hm, hs, hm.x_values[ix], hm.y_values[iy], deepcopy(hs.h, Ref(base))),
                  iy, ix + 1)

\* Lines 255-263.
HeatEnd(hm, hs) ==
    IF hs.raised THEN Job(hs.h, hs.log, hs.out)
    ELSE Job(hs.h, hs.log,
             [ kind |-> "result",
               body |-> [ optimization_job |->
                             [ mode |-> "sensitivity_heatmap",
                               x_axis |-> Dict(hm.x_spec),
                               y_axis |-> Dict(hm.y_spec),
                               z_metric |-> hm.z_metric ],
                          points |-> hs.matrix ] ])

HeatFrom(base, hm, h) ==
    HeatEnd(hm, HeatLoop(base, hm,
                         [ h |-> h, matrix |-> <<>>, log |-> <<>>, raised |-> FALSE,
                           out |-> NoneV ], 1, 1))

\* Lines 237-238: build_values does not return for an axis, and no key was
\* found missing before.
HeatStuck(heatmap) ==
    /\ FirstMissing(heatmap, <<"x_axis", "y_axis", "z_metric">>, 1) = ""
    /\ ListsEnd(<<heatmap.x_axis, heatmap.y_axis>>, 1) = "hang"

\* dynamic_sensitivity_heatmap(heatmap) of the service whose base_payload is at base.
dynamic_sensitivity_heatmap(h, base, heatmap) ==
    IF HeatStuck(heatmap) THEN Job(h, <<>>, [kind |-> "hang"])
    ELSE IF HeatmapMissing(heatmap) # "" THEN Job(h, <<>>, KeyError(HeatmapMissing(heatmap)))
    ELSE HeatFrom(base, HeatmapOf(heatmap), h)

(***************************************************************************)
(* State                                                                   *)
(***************************************************************************)
VARIABLES
    heap,           \* the objects that outlive a call: the module-level default tree
    heap_before,    \* the heap as the last call found it
    request,        \* the last call: the operation and the payload it was given
    response,       \* how the last call ended
    evaluations,    \* the calls of OptimizerService._evaluate made by the last job
    base_payload,   \* OptimizerService.base_payload: its objects, and its contents when
                    \* the job ended
    run_pc,         \* position of a run() that is followed step by step
    run_c,          \* what that run() read from its model
    run_hi,         \* hi of its lease-rate calibration
    run_best,       \* best_local of its lease-rate calibration
    run_tick,       \* parity of the passes its growth loop has made
    optimization    \* what run_optimization did for the last POST /optimize, or None

vars == <<heap, heap_before, request, response, evaluations, base_payload,
          run_pc, run_c, run_hi, run_best, run_tick, optimization>>

\* When a call is over its payload, model and copies are garbage: the default
\* tree, which holds no reference to them, is what remains.
Collect(h) == SubSeq(h, 1, DefaultRoot)

\* An HTTP response, or (status 0) the end of a direct call of the engine.
Raised(status, error, detail) ==
    [status |-> status, error |-> error, detail |-> detail, body |-> NoneV]
Returned(status, body) ==
    [status |-> status, error |-> "none", detail |-> "", body |-> body]

NoCall == [op |-> "none"]

\* How a call of the engine ends for its caller: through POST /simulate a
\* ValueError becomes a 400 and a result a 200; status 0 is a direct call.
Ended(e, failed, ok) ==
    [ h |-> Collect(e.h),
      hang |-> e.out.kind = "hang",
      response |-> IF e.out.kind = "ValueError" THEN Raised(failed, "ValueError", e.out.message)
                   ELSE IF e.out.kind = "hang" THEN Raised(0, "hang", "")
                   ELSE Returned(ok, e.out.simulation_results) ]

\* CalculationClass(payload).run() with the payload stored at s.
CalculationRun(s) == Ended(Engine(s.h, s.v.a), 0, 0)

\* POST /simulate with a request that passed the BYOGScenarioRequest validation;
\* s holds payload = request.model_dump(exclude_none=True).
simulate(s) == Ended(Engine(s.h, s.v.a), 400, 200)

\* Lines 357-369 of optimize_byog: the job the mode names, or the HTTPException.
Dispatch(h, base, job) ==
    IF "mode" \in DOMAIN job /\ job.mode = Str("single_variable_goal_seek")
    THEN single_variable_goal_seek(h, base, job)
    ELSE IF "mode" \in DOMAIN job /\ job.mode = Str("multi_variable")
    THEN multi_variable_optimize(h, base, job)
    ELSE IF "mode" \in DOMAIN job /\ job.mode = Str("sensitivity_heatmap")
    THEN dynamic_sensitivity_heatmap(h, base, job)
    ELSE Job(h, <<>>, [kind |-> "HTTPException",
                       message |-> "optimization_job.mode must be one of"])

\* Lines 370-376: the response for the way the job ended.
JobResponse(out) ==
    IF out.kind = "result" THEN Returned(200, out.body)
    ELSE IF out.kind = "ValueError" THEN Raised(400, "ValueError", out.message)
    ELSE IF out.kind = "HTTPException" THEN Raised(400, "HTTPException", out.message)
    ELSE IF out.kind = "hang" THEN Raised(0, "hang", "")
    ELSE Raised(500, out.kind, out.message)

\* The request served: the heap left, the evaluations made, base_payload as it
\* is when the job has returned or raised.
Served(s, r) ==
    [ h |-> Collect(r.h),
      hang |-> r.out.kind = "hang",
      response |-> JobResponse(r.out),
      evaluations |-> r.log,
      base_payload |-> [contents |-> Contents(r.h, s.v), objects |-> Reach(s.h, s.v)] ]

\* POST /optimize/byog with a request that passed the BYOGOptimizeRequest
\* validation; s holds payload = request.model_dump(exclude_none=True).
optimize_byog(s) ==
    Served(s, Dispatch(s.h, s.v.a, Contents(s.h, GetItem(s.h, s.v.a, "optimization_job")).d))

(***************************************************************************)
(* Inputs                                                                  *)
(***************************************************************************)
SiteContext(kw) == [site_context |-> Dict([facility_peak_load_kw |-> Num(kw)])]

\* model_dump fills the defaults of the optional fields (fuel_escalator_pct 2.0).
AssetParameters(fuel) ==
    [asset_parameters |-> Dict([
        nameplate_capacity_kw |-> Num(5000),
        fuel_price_usd_per_mmbtu |-> Num(fuel),
        fuel_escalator_pct |-> Num(20000),
        heat_rate_btu_kwh |-> Num(9000)])]

FinancialAssumptions == [financial_assumptions |-> Dict([
        discount_rate_pct |-> Num(80000), inflation_rate_pct |-> Num(25000)])]

Analysis(years) == [analysis |-> Dict([analysis_period_years |-> Num(years)])]
Revenue(fields) == [revenue |-> Dict(fields)]
ByocInputs(sections) == [byoc_inputs |-> Dict(sections)]

FixedLease(rate) ==
    Revenue([dynamic_lease_pricing_enabled |-> Bool(FALSE),
             base_lease_rate_wholesale_usd_per_mw_month |-> Num(rate)])

\* Three tiers, none of them named tier1.
Tiers(top) == [curtailment |-> Dict([tiers |-> List(<<
        Dict([name |-> Str("tier4"), mw |-> Num(top)]),
        Dict([name |-> Str("tier3"), mw |-> Num(30000)]),
        Dict([name |-> Str("tier2"), mw |-> Num(30000)]) >>)])]

\* Tiers of the caller's own: tier1 first, a tier without mw last.
OwnTiers(first, second) == [curtailment |-> Dict([tiers |-> List(<<
        Dict([name |-> Str("tier1"), mw |-> Num(first)]),
        Dict([name |-> Str("tier2"), mw |-> Num(second)]),
        Dict([name |-> Str("tier3")]) >>)])]

\* The analysis period and the share gas may back up.
GasBackup(years, pct) ==
    [analysis |-> Dict([analysis_period_years |-> Num(years), max_gas_backup_pct |-> Num(pct)])]

EsaGrid(fields) == [resource_costs |-> Dict([esa_grid |-> Dict(fields)])]

\* A site built at no construction cost that carries 100 million USD a year of
\* other G&A, let at the base rate over the absorption period given.
CostlyToRun(base, absorption) ==
    Revenue([ base_lease_rate_wholesale_usd_per_mw_month |-> Num(base),
              absorption_period_years |-> Num(absorption) ])
      @@ [opex |-> Dict([other_ga_usd_per_year |-> Num(100000)])]
      @@ [data_center |-> Dict([construction_cost_per_kw_usd |-> Num(0)])]

\* Payloads of direct calls: any dict will do for CalculationClass.
DirectPayloads ==
    { Dict(ByocInputs(Analysis(2))),
      Dict(ByocInputs(Analysis(2) @@ CostlyToRun(900, 10))),
      Dict(ByocInputs(Analysis(2) @@ CostlyToRun(900, 0))),
      Dict(ByocInputs(Analysis(2) @@ CostlyToRun(480, 0))),
      Dict(ByocInputs(GasBackup(2, 5000))),
      Dict(ByocInputs(GasBackup(2, 2000) @@ EsaGrid([available |-> Bool(FALSE)]))),
      Dict(ByocInputs(GasBackup(2, 0) @@ EsaGrid([max_capacity_mw |-> Num(20000)]))),
      Dict(ByocInputs(GasBackup(2, 500000)
             @@ [firmness |-> Dict([base_firm_generation_requirement_pct |-> Num(0)])])),
      Dict(ByocInputs(Analysis(3) @@ FixedLease(480))),
      Dict(ByocInputs(Analysis(2) @@ FixedLease(0))),
      Dict(SiteContext(50000) @@ ByocInputs(Analysis(2))),
      Dict(SiteContext(20000) @@ ByocInputs(Analysis(2))),
      Dict(ByocInputs(Analysis(2) @@ Revenue([leasable_it_capacity_mw |-> Num(150000)]))),
      Dict(ByocInputs(Analysis(2)
             @@ [load_profile |-> Dict([peak_it_load_mw |-> Num(120000)])])),
      Dict(ByocInputs(Analysis(2)
             @@ [resource_costs |-> Dict([natural_gas |->
                    Dict([fuel_cost_usd_per_mmbtu |-> Num(0)])])])),
      Dict(ByocInputs(Analysis(2) @@ Tiers(30000) @@ FixedLease(480))),
      Dict(ByocInputs(Analysis(2) @@ Tiers(30002))),
      Dict(ByocInputs(Analysis(2) @@ OwnTiers(10000, 30000))),
      Dict(ByocInputs(Analysis(2) @@ OwnTiers(10000, 95000))),
      Dict(ByocInputs(Analysis(2) @@ OwnTiers(5000, 90001))) }

\* Requests that pass the BYOGScenarioRequest validation: site_context and
\* asset_parameters are required, the other two sections optional.
SimulateRequests ==
    { Dict(SiteContext(90000) @@ AssetParameters(4) @@ ByocInputs(Analysis(2))),
      Dict(SiteContext(200000) @@ AssetParameters(5) @@ FinancialAssumptions
             @@ ByocInputs(Analysis(2) @@ FixedLease(480))),
      Dict(SiteContext(90000) @@ AssetParameters(4)
             @@ ByocInputs(Analysis(2)
                           @@ Revenue([leasable_it_capacity_mw |-> Num(150000)]))),
      Dict(SiteContext(90000) @@ AssetParameters(4)
             @@ ByocInputs(Analysis(2) @@ FixedLease(0))),
      Dict(SiteContext(50000) @@ AssetParameters(4) @@ ByocInputs(Analysis(2))) }

(***************************************************************************)
(* The engine, called directly and through POST /simulate                  *)
(***************************************************************************)
Init ==
    /\ heap = ImportHeap
    /\ heap_before = ImportHeap
    /\ request = NoCall
    /\ response = Returned(0, NoneV)
    /\ evaluations = <<>>
    /\ base_payload = NoneV
    /\ run_pc = "idle"
    /\ run_c = NoneV
    /\ run_hi = 0
    /\ run_best = NoneV
    /\ run_tick = 0
    /\ optimization = NoneV

\* The end of a call that took the heap from `heap` to r.h.  A call that does
\* not return produces no response: SpecRun follows such a call step by step.
Answer(op, tree, r) ==
    /\ run_pc = "idle"
    /\ ~r.hang
    /\ heap' = r.h
    /\ heap_before' = heap
    /\ request' = [op |-> op, payload |-> tree]
    /\ response' = r.response
    /\ evaluations' = <<>>
    /\ base_payload' = NoneV
    /\ UNCHANGED <<run_pc, run_c, run_hi, run_best, run_tick, optimization>>

Run(tree) == Answer("run", tree, CalculationRun(Store(heap, tree)))

Simulate(tree) == Answer("simulate", tree, simulate(Store(heap, tree)))

Next ==
    \/ \E tree \in DirectPayloads : Run(tree)
    \/ \E tree \in SimulateRequests : Simulate(tree)

Spec == Init /\ [][Next]_vars

(***************************************************************************)
(* POST /optimize/byog                                                     *)
(***************************************************************************)
\* The largest iteration cap a goal-seek job of OptimizeRequests names.
MaxIter == 5

RECURSIVE Pow2(_)
Pow2(n) == IF n = 0 THEN 1 ELSE 2 * Pow2(n - 1)


LeaseRate == <<"byoc_inputs", "revenue", "base_lease_rate_wholesale_usd_per_mw_month">>
Leasable == <<"byoc_inputs", "revenue", "leasable_it_capacity_mw">>

\* A request body without its job: a fixed lease rate of 480, leased from year 1.
Scenario480 ==
    SiteContext(90000) @@ AssetParameters(4)
      @@ ByocInputs(Analysis(2)
           @@ Revenue([dynamic_lease_pricing_enabled |-> Bool(FALSE),
                       absorption_period_years |-> Num(0),
                       base_lease_rate_wholesale_usd_per_mw_month |-> Num(480)]))

Range(path, min, max) == [path |-> PathStr(path), min |-> Num(min), max |-> Num(max)]
Capped(n) == [max_iterations |-> Num(n)]
Within(tol) == [tolerance |-> Num(tol)]

\* The lease rates a goal-seek job searches: wide enough for MaxIter midpoints
\* to be whole numbers of thousands.
RateRange == [ path |-> PathStr(LeaseRate), min |-> Num(480),
               max |-> Num(480 + Pow2(MaxIter)) ]

GoalSeek(metric, target, decision_variable) ==
    Dict([ mode |-> Str("single_variable_goal_seek"),
           target_variable |-> Str(metric),
           target_value |-> Num(target),
           decision_variable |-> Dict(decision_variable) ])

GoalSeekJobs ==
    { GoalSeek("simple_payback_years", 1925,
               RateRange @@ Within(1) @@ Capped(n)) : n \in 0..MaxIter }
    \cup { GoalSeek("project_irr_levered_pct", 34,
                    RateRange @@ Within(5) @@ Capped(n))
             : n \in 1..MaxIter }
    \cup { GoalSeek("simple_payback_years", 1925, RateRange),
           GoalSeek("positive_cashflow_years", 3, RateRange @@ Capped(2)),
           GoalSeek("no_such_kpi", 1, RateRange),
           GoalSeek("simple_payback_years", 1925, Range(LeaseRate, 440, 472) @@ Capped(2)),
           GoalSeek("simple_payback_years", 1933, Range(Leasable, 100000, 164000) @@ Capped(2)),
           GoalSeek("simple_payback_years", 1933,
                    Range(<<"financial_assumptions", "discount_rate_pct">>, 80000, 80008)),
           Dict([ mode |-> Str("single_variable_goal_seek"),
                  target_value |-> Num(1925),
                  decision_variable |-> Dict(RateRange) ]),
           Dict([ mode |-> Str("single_variable_goal_seek"),
                  target_variable |-> Str("simple_payback_years"),
                  target_value |-> Num(1925),
                  decision_variable |-> Dict([path |-> PathStr(LeaseRate), min |-> Num(480)]) ]) }

\* An item of decision_variables: the key and its DecisionVariableRange.
Variable(key, min, max, step) ==
    Dict([key |-> PathStr(key), min |-> Num(min), max |-> Num(max), step |-> Num(step)])

Constraint(metric, operator, value) ==
    Dict([metric |-> Str(metric), operator |-> Str(operator), value |-> Num(value)])

MultiVariable(metric, rest, decision_variables) ==
    Dict([ mode |-> Str("multi_variable"),
           target_variable |-> Str(metric),
           decision_variables |-> List(decision_variables) ] @@ rest)

RateByLeasable ==
    << Variable(LeaseRate, 480, 496, 8), Variable(Leasable, 80000, 90000, 10000) >>

FuelByDiscount ==
    << Variable(<<"fuel_price_usd_per_mmbtu">>, 4, 5, 1),
       Variable(<<"discount_rate_pct">>, 80000, 90000, 10000) >>

NoRest == [x \in {} |-> NoneV]

MultiVariableJobs ==
    { MultiVariable("simple_payback_years",
                    [ goal |-> Str("minimize"),
                      constraints |-> List(<<Constraint("simple_payback_years",
                                                        "less_than_equal", 1950)>>) ],
                    RateByLeasable),
      MultiVariable("simple_payback_years", [goal |-> Str("minimize")], RateByLeasable),
      MultiVariable("project_irr_levered_pct",
                    [ constraints |-> List(<<Constraint("positive_cashflow_years",
                                                        "greater_than_equal", 2),
                                             Constraint("project_irr_levered_pct",
                                                        "less_than", 60)>>) ],
                    RateByLeasable),
      MultiVariable("project_irr_levered_pct", NoRest, FuelByDiscount),
      MultiVariable("project_irr_levered_pct",
                    [ constraints |-> List(<<Constraint("project_irr_levered_pct",
                                                        "between", 10)>>) ],
                    RateByLeasable),
      MultiVariable("project_irr_levered_pct",
                    [ constraints |-> List(<<Constraint("simple_payback_years",
                                                        "less_than", 1000)>>) ],
                    RateByLeasable),
      MultiVariable("simple_payback_years", NoRest, <<Variable(LeaseRate, 440, 456, 8)>>),
      MultiVariable("project_irr_levered_pct", NoRest, <<>>),
      MultiVariable("project_irr_levered_pct", NoRest,
                    <<Variable(<<"fuel_price_usd_per_mmbtu">>, 0, 1, 1)>>),
      MultiVariable("project_irr_levered_pct", NoRest,
                    <<Dict([key |-> PathStr(LeaseRate), min |-> Num(480), max |-> Num(496)])>>) }

Axis(path, min, max, step) ==
    Dict([path |-> PathStr(path), min |-> Num(min), max |-> Num(max), step |-> Num(step)])

Heatmap(fields) == Dict([mode |-> Str("sensitivity_heatmap")] @@ fields)

HeatmapJobs ==
    { Heatmap([ x_axis |-> Axis(LeaseRate, 472, 488, 8),
                y_axis |-> Axis(Leasable, 80000, 90000, 10000),
                z_metric |-> Str("simple_payback_years") ]),
      Heatmap([ x_axis |-> Axis(LeaseRate, 480, 488, 8),
                y_axis |-> Axis(<<"asset_parameters", "fuel_price_usd_per_mmbtu">>, 4, 5, 1),
                z_metric |-> Str("no_such_kpi") ]),
      Heatmap([ x_axis |-> Axis(LeaseRate, 480, 488, 8),
                y_axis |-> Axis(Leasable, 90000, 110000, 20000),
                z_metric |-> Str("project_irr_levered_pct") ]),
      Heatmap([ x_axis |-> Axis(LeaseRate, 480, 488, 8),
                y_axis |-> Axis(Leasable, 80000, 90000, 10000) ]) }

OtherJobs == { Dict([mode |-> Str("simulated_annealing")]), Dict(NoRest) }

OptimizationJobs == GoalSeekJobs \cup MultiVariableJobs \cup HeatmapJobs \cup OtherJobs

\* Requests that pass the BYOGOptimizeRequest validation.
OptimizeRequests ==
    { Dict(Scenario480 @@ [optimization_job |-> job]) : job \in OptimizationJobs }

\* Requests of POST /simulate that change what later requests find.
ApiSimulateRequests ==
    { Dict(SiteContext(200000) @@ AssetParameters(5)
             @@ ByocInputs(Analysis(2) @@ FixedLease(480))),
      Dict(SiteContext(90000) @@ AssetParameters(4)
             @@ ByocInputs(Analysis(2)
                           @@ Revenue([leasable_it_capacity_mw |-> Num(150000)]))) }

\* The end of a request of POST /optimize/byog.
AnswerJob(tree, r) ==
    /\ run_pc = "idle"
    /\ ~r.hang
    /\ heap' = r.h
    /\ heap_before' = heap
    /\ request' = [op |-> "optimize", payload |-> tree]
    /\ response' = r.response
    /\ evaluations' = r.evaluations
    /\ base_payload' = r.base_payload
    /\ UNCHANGED <<run_pc, run_c, run_hi, run_best, run_tick, optimization>>

OptimizeByog(tree) == AnswerJob(tree, optimize_byog(Store(heap, tree)))

NextApi ==
    \/ \E tree \in ApiSimulateRequests : Simulate(tree)
    \/ \E tree \in OptimizeRequests : OptimizeByog(tree)

SpecApi == Init /\ [][NextApi]_vars

(***************************************************************************)
(* run(), followed pass by pass through its lease-rate calibration         *)
(***************************************************************************)
\* Lines 537-550 with the base-rate scenario: the calibration begins ("grow")
\* or run() goes on to its result.
EnterBase(h, c, base) ==
    IF c.dynamic_lease_enabled /\ NeedsLift(c, base)
    THEN [ h |-> h, pc |-> "grow", c |-> c, hi |-> FirstHi(c.base_lease_rate),
           best |-> base, out |-> NoneV ]
    ELSE [ h |-> h, pc |-> "idle", c |-> NoneV, hi |-> 0, best |-> NoneV,
           out |-> Result(Report(c, Uncalibrated(base))) ]

\* Lines 313-535 of run().
EnterRun(h, c) == EnterBase(h, c, Scenario(c, c.base_lease_rate))

\* __init__ with the guardrails judged, then run().
EnterChecked(b, verdict) ==
    IF verdict # "ok"
    THEN [ h |-> b.h, pc |-> "idle", c |-> NoneV, hi |-> 0, best |-> NoneV,
           out |-> ValueError(verdict) ]
    ELSE EnterRun(b.h, RunInputs(b.h, b.a))

EnterModel(b) == EnterChecked(b, _validate_guardrails(b.h, b.a))

\* CalculationClass(payload).run() up to the while loop of line 552.
Enter(s) == After(s, EnterModel(_build_model_inputs(s.h, s.v.a)))

\* The response of a call that has not returned.
Pending == Raised(0, "pending", "")

\* The response of a direct call that ended with out.
Direct(out) ==
    IF out.kind = "ValueError" THEN Raised(0, "ValueError", out.message)
    ELSE Returned(0, out.simulation_results)

\* Payloads of direct calls with dynamic lease pricing: base and maximum lease
\* rates in thousands of USD per MW-month.  A payload keeps hi of line 543 out
\* of 1..3, where hi * 1.25 rounds down to hi.
Pricing(base, max) ==
    Revenue([ base_lease_rate_wholesale_usd_per_mw_month |-> Num(base),
              max_lease_rate_usd_per_mw_month |-> Num(max),
              absorption_period_years |-> Num(0) ])

RunPayloads ==
    { Dict(site @@ ByocInputs(Analysis(2) @@ Pricing(base, max)))
        : site \in {SiteContext(90000), SiteContext(50000)},
          base \in {-10, 0, 120, 480}, max \in {150, 600} }
    \cup { Dict(ByocInputs(Analysis(2) @@ FixedLease(480))),
           Dict(ByocInputs(Analysis(2) @@ Tiers(30002))) }

\* The call begins: it ends at once with a ValueError or a result, or it
\* stands before the first pass of the while loop of line 552.
Begun(tree, r) ==
    /\ run_pc = "idle"
    /\ heap' = Collect(r.h)
    /\ heap_before' = heap
    /\ request' = [op |-> "run", payload |-> tree]
    /\ response' = IF r.pc = "grow" THEN Pending ELSE Direct(r.out)
    /\ evaluations' = <<>>
    /\ base_payload' = NoneV
    /\ run_pc' = r.pc
    /\ run_c' = r.c
    /\ run_hi' = r.hi
    /\ run_best' = r.best
    /\ run_tick' = 0
    /\ optimization' = NoneV

BeginRun(tree) == Begun(tree, Enter(Store(heap, tree)))

\* One pass of the while loop of lines 552-565 has been made and gave r; the
\* loop is left by its condition or by the break.
Grown(r) ==
    /\ run_pc = "grow"
    /\ run_pc' = IF r.ctl \in {"exit", "break"} THEN "bisect" ELSE "grow"
    /\ run_hi' = r.hi
    /\ run_best' = r.best
    /\ run_tick' = 1 - run_tick
    /\ UNCHANGED <<heap, heap_before, request, response, evaluations, base_payload, run_c,
                   optimization>>

GrowOnce == Grown(GrowStep(run_c, run_hi, run_best))

\* Lines 567-675: the bisection, the adoption and the result.
Finished(fin) ==
    /\ run_pc = "bisect"
    /\ run_pc' = "idle"
    /\ response' = Returned(0, Report(run_c, fin))
    /\ run_c' = NoneV
    /\ run_hi' = 0
    /\ run_best' = NoneV
    /\ run_tick' = 0
    /\ UNCHANGED <<heap, heap_before, request, evaluations, base_payload, optimization>>

FinishRun ==
    Finished(Calibrate(run_c, Scenario(run_c, run_c.base_lease_rate),
                       [hi |-> run_hi, best |-> run_best]))

NextRun ==
    \/ \E tree \in RunPayloads : BeginRun(tree)
    \/ GrowOnce
    \/ FinishRun

\* Where the call is: run_pc, and run_tick, which every pass of the loop turns.
run_at == <<run_pc, run_tick>>

\* The call that has begun is somewhere, after a step of whichever kind.
Advance ==
    /\ run_pc # "idle"
    /\ \E pc \in {"grow", "bisect", "idle"}, tick \in {0, 1} :
          /\ run_pc' = pc
          /\ run_tick' = tick

\* A call that has begun goes on: the interpreter makes the next pass of the
\* loop, or the rest of run(), as long as the call has not returned.
SpecRun == Init /\ [][NextRun]_vars /\ WF_run_at(Advance)

(***************************************************************************)
(* Properties of the engine                                                *)
(***************************************************************************)
Called == request.op \in {"run", "simulate"}

\* What the handler of the last request answers when it is the first call
\* after import.
FirstAnswer(op, s) == IF op = "simulate" THEN simulate(s) ELSE CalculationRun(s)

FreshResponse == FirstAnswer(request.op, Store(ImportHeap, request.payload)).response

\* C1 as stated: the outcome of a call depends only on the payload of that call
\* (it is the outcome the same payload has on a freshly imported module), and
\* DEFAULT_BYOC_INPUTS has the same contents after the call as at import.
C1_CallsAreIndependent ==
    Called => /\ response = FreshResponse
              /\ Contents(heap, Ref(DefaultRoot)) = DEFAULT_BYOC_INPUTS

\* C1: a call has ended whose answer differs from the answer its payload gets
\* on a fresh import.
C1_Leak == Called /\ response # FreshResponse

\* The model the constructor builds for the last request, as a tree.
BuiltTree(b) == Contents(b.h, Ref(b.a))
ModelOf(s) == BuiltTree(_build_model_inputs(s.h, s.v.a))
RequestModel == ModelOf(Store(heap_before, request.payload)).d

RECURSIVE MwTotal(_, _)
MwTotal(tiers, i) ==
    IF i > Len(tiers) THEN 0
    ELSE (IF "mw" \in DOMAIN tiers[i].d THEN tiers[i].d.mw.n ELSE 0) + MwTotal(tiers, i + 1)

\* One of the five guardrails is violated by the model m.
Violates(m) ==
    \/ m.load_profile.d.peak_it_load_mw.n > m.data_center.d.total_it_capacity_mw.n
    \/ m.load_profile.d.min_operating_load_mw.n > m.load_profile.d.peak_it_load_mw.n
    \/ m.revenue.d.leasable_it_capacity_mw.n > m.data_center.d.total_it_capacity_mw.n
    \/ Abs(MwTotal(m.curtailment.d.tiers.l, 1) - m.load_profile.d.peak_it_load_mw.n) > 1
    \/ ~(m.resource_costs.d.natural_gas.d.fuel_cost_usd_per_mmbtu.n > 0)

\* C3: a call ends in a ValueError, with no simulation result, exactly when
\* the model built for it violates one of the five guardrails (peak <= total
\* IT capacity, minimum operating load <= peak, leasable <= total IT capacity,
\* tier MW sum within 1e-3 of peak, gas fuel cost > 0); otherwise run() gives
\* its result.
C3_GuardrailsExactly ==
    Called => IF Violates(RequestModel)
              THEN response.error = "ValueError" /\ response.body = NoneV
              ELSE response.error = "none" /\ response.body # NoneV

\* C3: a call was rejected by the tier-sum guardrail, the last but one.
C3_Rejected ==
    /\ Called
    /\ response.error = "ValueError"
    /\ response.detail = "curtailment tier MW values must sum to peak_it_load_mw"

\* The final cash-flow series of a result: the outlay of year 0 and the net
\* free cash flow of every year of the waterfall.
FlowOf(row) == row.net_free_cash_flow
FinalSeries(body) ==
    <<-body.summary_kpis.total_project_cost_usd.n>>
      \o [i \in 1..Len(body.cash_flow_waterfall) |-> FlowOf(body.cash_flow_waterfall[i])]

NoIrr(body) == _irr_bisection(FinalSeries(body)) = NoneV

\* C4 as stated: when the final cash-flow series of a result has no IRR in the
\* bracket, the KPIs project_irr_unlevered_pct and project_irr_levered_pct are
\* null.
C4_NullIrr ==
    (Called /\ response.error = "none" /\ NoIrr(response.body))
      => /\ response.body.summary_kpis.project_irr_unlevered_pct = NoneV
         /\ response.body.summary_kpis.project_irr_levered_pct = NoneV

\* C4: a result whose final series has no IRR in the bracket.
C4_NoRoot == Called /\ response.error = "none" /\ NoIrr(response.body)

(***************************************************************************)
(* Properties of the optimizer                                             *)
(***************************************************************************)
Optimized == request.op = "optimize"

\* The job of the last request, and its mode ("" when it names none).
TheJob == request.payload.d.optimization_job.d
ModeOf(job) == IF "mode" \in DOMAIN job THEN job.mode.s ELSE ""

RECURSIVE TreeSet(_, _, _, _)
\* The contents of a payload whose contents were tr, once the leaf at the
\* path keys[i..] is value: a dict is put wherever the path finds none.
TreeSet(tr, keys, i, value) ==
    IF i = Len(keys) THEN Dict(PutKey(tr.d, keys[i], value))
    ELSE Dict(PutKey(tr.d, keys[i],
                     TreeSet(IF keys[i] \in DOMAIN tr.d /\ tr.d[keys[i]].t = "dict"
                             THEN tr.d[keys[i]] ELSE Dict(EmptyMap),
                             keys, i + 1, value)))

\* The path of a grid variable in a payload of contents tr.
FullPath(tr, key) ==
    IF Len(key) > 1 THEN key
    ELSE IF "asset_parameters" \in DOMAIN tr.d /\ key[1] \in DOMAIN tr.d.asset_parameters.d
    THEN <<"asset_parameters", key[1]>>
    ELSE <<"financial_assumptions", key[1]>>

\* The decision-variable path that takes the i-th value of a candidate.
Written(job, tr, i) ==
    IF ModeOf(job) = "single_variable_goal_seek" THEN job.decision_variable.d.path.keys
    ELSE IF ModeOf(job) = "sensitivity_heatmap"
    THEN (IF i = 1 THEN job.x_axis.d.path.keys ELSE job.y_axis.d.path.keys)
    ELSE FullPath(tr, job.decision_variables.l[i].d.key.keys)

RECURSIVE SetAll(_, _, _, _)
\* The base contents tr with the values of a candidate at its paths, and
\* nothing else changed.
SetAll(job, tr, point, i) ==
    IF i > Len(point) THEN tr
    ELSE SetAll(job, TreeSet(tr, Written(job, tr, i), 1, Num(point[i])), point, i + 1)

\* C2: after a job has returned or raised, base_payload holds what the request
\* gave it; every evaluation ran on a payload whose contents are the base
\* contents with that candidate's values at its decision-variable paths and
\* nothing else changed, and which shares no object with the base payload or
\* with the payload of another evaluation.
C2_OwnDeepCopy ==
    Optimized =>
      /\ base_payload.contents = request.payload
      /\ \A i \in DOMAIN evaluations :
            /\ evaluations[i].payload = SetAll(TheJob, request.payload, evaluations[i].point, 1)
            /\ evaluations[i].objects \cap base_payload.objects = {}
            /\ \A j \in DOMAIN evaluations :
                  i # j => evaluations[i].objects \cap evaluations[j].objects = {}

\* C2: a job made two evaluations on payloads that differ from each other and
\* from the base payload.
C2_TwoCandidates ==
    /\ Optimized
    /\ Len(evaluations) >= 2
    /\ evaluations[1].payload # evaluations[2].payload
    /\ evaluations[1].payload # request.payload
    /\ evaluations[2].payload # request.payload

(***************************************************************************)
(* Properties of goal seek                                                 *)
(***************************************************************************)
\* The last request was a goal-seek job that holds the fields read at lines
\* 85-90; TheGoal is that job as the loop uses it.
SeekDone ==
    Optimized /\ ModeOf(TheJob) = "single_variable_goal_seek" /\ GoalSeekMissing(TheJob) = ""
TheGoal == GoalOf(TheJob)

\* The KPI of a simulation, NoneV when the engine raised or the KPI is missing.
KpiIn(out, metric) == IF out.kind = "result" THEN _get_kpi(out, metric) ELSE NoneV

\* The KPI that the i-th evaluation gave, and its distance to the target.
SeekKpiOf(i) == KpiIn(evaluations[i].out, TheGoal.metric)
ErrOf(i) == Abs(SeekKpiOf(i).n - TheGoal.target)

RECURSIVE IntervalAt(_)
\* [lo, hi] as the i-th evaluation finds it: [min, max] narrowed by the KPIs
\* of the evaluations before it.
IntervalAt(i) ==
    IF i = 1 THEN <<TheGoal.min, TheGoal.max>>
    ELSE IF SeekKpiOf(i - 1).n > TheGoal.target
    THEN <<evaluations[i - 1].point[1], IntervalAt(i - 1)[2]>>
    ELSE <<IntervalAt(i - 1)[1], evaluations[i - 1].point[1]>>

\* The earliest of the evaluations of smallest error.
BestAt ==
    CHOOSE b \in DOMAIN evaluations :
        \A j \in DOMAIN evaluations : ErrOf(b) < ErrOf(j) \/ (ErrOf(b) = ErrOf(j) /\ b <= j)

\* C6: a goal-seek job makes at most max_iterations evaluations (50 when the
\* job names no cap), the i-th at the midpoint of [lo, hi] as the KPIs before
\* it left it; no evaluation follows one whose KPI is within the tolerance of
\* the target, and a job that returns before its cap ended on such an
\* evaluation; the job returns as solved_value the midpoint of the earliest
\* evaluation of smallest |KPI - target|, within [min, max], with the
\* simulation results and the payload of that evaluation.
C6_GoalSeek ==
    SeekDone =>
      /\ Len(evaluations) <= TheGoal.max_iter
      /\ \A i \in DOMAIN evaluations :
            /\ Len(evaluations[i].point) = 1
            /\ 2 * evaluations[i].point[1] = IntervalAt(i)[1] + IntervalAt(i)[2]
            /\ i < Len(evaluations) => SeekKpiOf(i) # NoneV /\ ErrOf(i) > TheGoal.tol
      /\ response.status = 200 =>
            /\ evaluations # <<>>
            /\ Len(evaluations) < TheGoal.max_iter => ErrOf(Len(evaluations)) <= TheGoal.tol
            /\ response.body.optimization_job.solved_value = evaluations[BestAt].point[1]
            /\ response.body.optimization_job.solved_value >= TheGoal.min
            /\ response.body.optimization_job.solved_value <= TheGoal.max
            /\ response.body.simulation_results = evaluations[BestAt].out.simulation_results
            /\ response.body.resolved_payload = evaluations[BestAt].payload

\* C6: a job returned after evaluations of equal error, and one that reached
\* its cap returned an evaluation that was not its last.
C6_EarliestBest ==
    /\ SeekDone
    /\ response.status = 200
    /\ Len(evaluations) >= 2
    /\ BestAt < Len(evaluations)
    /\ ErrOf(1) = ErrOf(Len(evaluations))
    /\ Len(evaluations) = TheGoal.max_iter

RECURSIVE Halvings(_)
\* The halvings that bring an interval of width w to the resolution.
Halvings(w) == IF w <= 1 THEN 0 ELSE 1 + Halvings((w + 1) \div 2)

\* The cap of the job lets [min, max] shrink to the resolution.
SeekFar ==
    /\ SeekDone
    /\ TheGoal.min < TheGoal.max
    /\ TheGoal.max_iter >= Halvings(TheGoal.max - TheGoal.min)

\* The KPI of the engine, as the request found it, on the payload of the
\* request with the decision variable at v.
SeekKpiAt(v) ==
    KpiIn(Engine(Store(heap_before, TreeSet(request.payload, TheGoal.path, 1, Num(v))).h,
                 Store(heap_before, TreeSet(request.payload, TheGoal.path, 1, Num(v))).v.a).out,
          TheGoal.metric)

KpiDefined == \A v \in TheGoal.min..TheGoal.max : SeekKpiAt(v) # NoneV
NonIncreasing == \A v \in TheGoal.min..(TheGoal.max - 1) : SeekKpiAt(v).n >= SeekKpiAt(v + 1).n
NonDecreasing == \A v \in TheGoal.min..(TheGoal.max - 1) : SeekKpiAt(v).n <= SeekKpiAt(v + 1).n
Attained(values) == \E v \in values : SeekKpiAt(v).n = TheGoal.target

\* The job returned a value in bounds whose simulation has the KPI within the
\* tolerance of the target.
Solved ==
    /\ response.status = 200
    /\ response.body.optimization_job.solved_value >= TheGoal.min
    /\ response.body.optimization_job.solved_value <= TheGoal.max
    /\ TheGoal.metric \in DOMAIN response.body.simulation_results.summary_kpis
    /\ Abs(response.body.simulation_results.summary_kpis[TheGoal.metric].n - TheGoal.target)
         <= TheGoal.tol

\* C7 as stated: when the KPI is monotone, in either direction, over
\* [min, max] and attains the target in these bounds, a job whose cap lets the
\* interval shrink to the resolution returns a value in bounds whose
\* simulation has the KPI within the tolerance of the target.
C7_Monotone ==
    (SeekFar /\ KpiDefined /\ (NonIncreasing \/ NonDecreasing)
       /\ Attained(TheGoal.min..TheGoal.max))
    => Solved

\* C7, amended: when the KPI does not increase with the decision variable
\* over [min, max] and attains the target strictly between the bounds, a job
\* whose cap lets the interval shrink to the resolution returns a value in
\* bounds whose simulation has the KPI within the tolerance of the target.
C7_NonIncreasing ==
    (SeekFar /\ KpiDefined /\ NonIncreasing
       /\ Attained((TheGoal.min + 1)..(TheGoal.max - 1)))
    => Solved

\* C7: such a job found the target after it narrowed the interval three times.
C7_Found ==
    /\ SeekFar
    /\ Len(evaluations) >= 4
    /\ KpiDefined
    /\ NonIncreasing
    /\ Attained((TheGoal.min + 1)..(TheGoal.max - 1))
    /\ Solved

(***************************************************************************)
(* Properties of the grid search                                           *)
(***************************************************************************)
\* The last request was a grid-search job that holds the fields read at lines
\* 136-150 and names a decision variable.
GridDone ==
    /\ Optimized
    /\ ModeOf(TheJob) = "multi_variable"
    /\ GridMissing(TheJob) = ""
    /\ Len(TheJob.decision_variables.l) > 0

\* min, min + step, ... up to max inclusive.
StepsOf(range) ==
    IF range.max.n < range.min.n THEN <<>>
    ELSE [k \in 1..((range.max.n - range.min.n) \div range.step.n + 1)
            |-> range.min.n + (k - 1) * range.step.n]

RECURSIVE Cross(_, _, _), PointsFrom(_, _), SizeProduct(_, _)
\* Each tail after values[j], values[j + 1], ... in turn.
Cross(values, j, tails) ==
    IF j > Len(values) THEN <<>>
    ELSE [k \in DOMAIN tails |-> <<values[j]>> \o tails[k]] \o Cross(values, j + 1, tails)

\* The Cartesian product of the grids of the variables i, i + 1, ..., the
\* first variable outermost.
PointsFrom(items, i) ==
    IF i > Len(items) THEN << <<>> >>
    ELSE Cross(StepsOf(items[i].d), 1, PointsFrom(items, i + 1))

SizeProduct(items, i) ==
    IF i > Len(items) THEN 1 ELSE Len(StepsOf(items[i].d)) * SizeProduct(items, i + 1)

GridPoints == PointsFrom(TheJob.decision_variables.l, 1)

Operators == {"less_than", "less_than_equal", "greater_than", "greater_than_equal", "equal"}

\* The constraint holds of a KPI that the simulation has.
HoldsOf(value, op, bound) ==
    \/ op = "less_than" /\ value < bound
    \/ op = "less_than_equal" /\ value <= bound
    \/ op = "greater_than" /\ value > bound
    \/ op = "greater_than_equal" /\ value >= bound
    \/ op = "equal" /\ value = bound

Holds(out, c) ==
    /\ KpiIn(out, c.metric.s) # NoneV
    /\ HoldsOf(KpiIn(out, c.metric.s).n, c.operator.s, c.value.n)

TheConstraints == IF "constraints" \in DOMAIN TheJob THEN TheJob.constraints.l ELSE <<>>
TheDirection == IF "goal" \in DOMAIN TheJob THEN TheJob.goal.s ELSE "maximize"

\* The evaluations where all constraints hold, and those of them that have
\* the target KPI.
Feasible ==
    { i \in DOMAIN evaluations :
        /\ evaluations[i].out.kind = "result"
        /\ \A k \in DOMAIN TheConstraints : Holds(evaluations[i].out, TheConstraints[k].d) }
GridKpiOf(i) == KpiIn(evaluations[i].out, TheJob.target_variable.s)
Ranked == { i \in Feasible : GridKpiOf(i) # NoneV }

\* i is at least as good as j for the goal of the job.
Beats(i, j) ==
    IF TheDirection = "minimize" THEN GridKpiOf(i).n < GridKpiOf(j).n
    ELSE GridKpiOf(i).n > GridKpiOf(j).n

\* The first enumerated of the feasible points of best KPI.
GridBestAt ==
    CHOOSE b \in Ranked :
        \A j \in Ranked : Beats(b, j) \/ (GridKpiOf(b) = GridKpiOf(j) /\ b <= j)

NoFeasible == "No feasible solution found for optimization job"

\* A grid search evaluated every point and none is feasible.
NoneFeasible ==
    /\ GridDone
    /\ Len(evaluations) = Len(GridPoints)
    /\ \A i \in DOMAIN evaluations : evaluations[i].out.kind = "result"
    /\ Feasible = {}

SectionIn(tree, section) ==
    IF section \in DOMAIN tree.d THEN tree.d[section] ELSE Dict(EmptyMap)

\* C8: a grid search evaluates the points of the Cartesian product of the
\* grids (min, min + step, ... up to max), in order and each once; a job that
\* returns, or that raises for want of a feasible point, has evaluated every
\* point; a job that returns reports the product of the grid sizes as tested,
\* the number of points where all constraints hold as feasible, and the first
\* enumerated of the feasible points of greatest (maximize) or least
\* (minimize) target KPI with its simulation results and configuration; a job
\* that evaluated every point and found none feasible raises the ValueError.
C8_GridSearch ==
    GridDone =>
      /\ Len(evaluations) <= Len(GridPoints)
      /\ \A i \in DOMAIN evaluations : evaluations[i].point = GridPoints[i]
      /\ (response.status = 200 \/ response.detail = NoFeasible) =>
            Len(evaluations) = Len(GridPoints)
      /\ response.status = 200 =>
            /\ response.body.optimization_job.tested_scenarios
                 = SizeProduct(TheJob.decision_variables.l, 1)
            /\ response.body.optimization_job.tested_scenarios = Len(GridPoints)
            /\ response.body.optimization_job.feasible_scenarios = Cardinality(Feasible)
            /\ Ranked # {}
            /\ response.body.optimization_job.objective_value = GridKpiOf(GridBestAt).n
            /\ response.body.simulation_results
                 = evaluations[GridBestAt].out.simulation_results
            /\ response.body.best_configuration
                 = [ asset_parameters |->
                         SectionIn(evaluations[GridBestAt].payload, "asset_parameters"),
                     financial_assumptions |->
                         SectionIn(evaluations[GridBestAt].payload, "financial_assumptions") ]
      /\ ( /\ NoneFeasible
           /\ \A k \in DOMAIN TheConstraints : TheConstraints[k].d.operator.s \in Operators ) =>
            /\ response.status = 400
            /\ response.error = "ValueError"
            /\ response.detail = NoFeasible

\* C8: a job over a grid of two variables returned a point that was not the
\* first it evaluated, with some of the points feasible and some not.
C8_SomeFeasible ==
    /\ GridDone
    /\ response.status = 200
    /\ Len(TheJob.decision_variables.l) = 2
    /\ Len(evaluations) = 6
    /\ Cardinality(Feasible) \in 1..5
    /\ GridBestAt > 1

(***************************************************************************)
(* Properties of the heatmap                                               *)
(***************************************************************************)
\* The last request was a heatmap job that returned.
HeatDone ==
    /\ Optimized
    /\ ModeOf(TheJob) = "sensitivity_heatmap"
    /\ response.status = 200

XValues == StepsOf(TheJob.x_axis.d)
YValues == StepsOf(TheJob.y_axis.d)

\* C9: a heatmap that returns holds |X| * |Y| points, one for every pair of
\* an x-grid value and a y-grid value; the point of a pair holds as z the KPI
\* of the engine run on a payload that is the base payload with the two axis
\* paths set to x and y and nothing else changed, and NoneV (null) when that
\* simulation lacks the KPI.
C9_Heatmap ==
    HeatDone =>
      /\ Len(response.body.points) = Len(XValues) * Len(YValues)
      /\ Len(evaluations) = Len(response.body.points)
      /\ \A ix \in DOMAIN XValues : \A iy \in DOMAIN YValues :
            Cardinality({ k \in DOMAIN response.body.points :
                            /\ response.body.points[k].x = XValues[ix]
                            /\ response.body.points[k].y = YValues[iy] }) = 1
      /\ \A k \in DOMAIN response.body.points :
            /\ evaluations[k].point = <<response.body.points[k].x, response.body.points[k].y>>
            /\ evaluations[k].payload
                 = TreeSet(TreeSet(request.payload, TheJob.x_axis.d.path.keys, 1,
                                   Num(response.body.points[k].x)),
                           TheJob.y_axis.d.path.keys, 1, Num(response.body.points[k].y))
            /\ response.body.points[k].z
                 = (IF TheJob.z_metric.s
                         \in DOMAIN evaluations[k].out.simulation_results.summary_kpis
                    THEN evaluations[k].out.simulation_results.summary_kpis[TheJob.z_metric.s]
                    ELSE NoneV)

\* C9: a heatmap of 3 * 2 pairs returned; the simulation has the KPI at some
\* of them and lacks it at others.
C9_NullPoints ==
    /\ HeatDone
    /\ Len(XValues) = 3
    /\ Len(YValues) = 2
    /\ Len(response.body.points) = 6
    /\ \E k \in DOMAIN response.body.points : response.body.points[k].z = NoneV
    /\ \E k \in DOMAIN response.body.points : response.body.points[k].z # NoneV

(***************************************************************************)
(* Errors of the API                                                       *)
(***************************************************************************)
Modes == {"single_variable_goal_seek", "multi_variable", "sensitivity_heatmap"}

\* The job of the last request lacks a field that its mode requires.
MissingField ==
    \/ ModeOf(TheJob) = "single_variable_goal_seek" /\ GoalSeekMissing(TheJob) # ""
    \/ ModeOf(TheJob) = "multi_variable" /\ GridMissing(TheJob) # ""
    \/ ModeOf(TheJob) = "sensitivity_heatmap" /\ HeatmapMissing(TheJob) # ""

\* The engine rejected the payload of a candidate.
CandidateRejected == \E i \in DOMAIN evaluations : evaluations[i].out.kind = "ValueError"

\* A constraint of a grid search names an operator that is not supported.
BadOperator ==
    /\ ModeOf(TheJob) = "multi_variable"
    /\ GridMissing(TheJob) = ""
    /\ \E k \in DOMAIN TheConstraints : TheConstraints[k].d.operator.s \notin Operators

\* C10 as stated: a request of simulate that the guardrails reject, and a
\* request of optimize/byog with an unknown mode, a job that lacks a required
\* field, a candidate that the guardrails reject, an unsupported operator or
\* no feasible point, is answered with a client error and no result; a 5xx
\* answers none of these.
C10_ClientErrors ==
    /\ (request.op = "simulate" /\ response.error = "ValueError") =>
          (response.status = 400 /\ response.body = NoneV)
    /\ ( /\ Optimized
         /\ \/ ModeOf(TheJob) \notin Modes
            \/ MissingField
            \/ CandidateRejected
            \/ BadOperator
            \/ NoneFeasible ) =>
          (response.status = 400 /\ response.body = NoneV)

\* C10: a job that lacks a required field was answered with a 500.
C10_KeyError500 ==
    /\ Optimized
    /\ MissingField
    /\ response.status = 500
    /\ response.error = "KeyError"

(***************************************************************************)
(* Termination of run()                                                    *)
(***************************************************************************)
\* C5 as stated: a run() that has begun on a payload that passed the guardrails
\* ends: the growth of hi in the lease-rate calibration stops after finitely
\* many passes and the call returns.
C5_RunTerminates == (run_pc # "idle") ~> (run_pc = "idle")

\* C5: a pass of the growth loop has been made and hi is what it was, 0.
C5_HiStaysZero == run_pc = "grow" /\ run_hi = 0 /\ run_tick = 1

(***************************************************************************)
(* The hybrid optimization: POST /optimize                                 *)
(*                                                                         *)
(* Quantities are fixed-point integers.  A load is in 0.01 MW; a dispatch  *)
(* or capacity variable of the linear program is in 0.00001 MW (MWh); a    *)
(* fraction or capacity factor is in 0.00001; money is in dollars, a price *)
(* per kW or per MWh in cents.  A reported value is in the unit of its     *)
(* last decimal: round(x, 4) gives 0.0001, round(x, 2) gives 0.01.         *)
(***************************************************************************)
\* model.py HOURS_PER_REPR: the representative hours.  The year of the model
\* is DAYS_PER_MONTH days of HOURS_PER_REPR hours, one month standing for the
\* twelve, so that HOURS_PER_REPR * DAYS_PER_MONTH is the 8760 of the source.
HOURS_PER_REPR == 3

DAYS_PER_MONTH == 365

HOURS_PER_YEAR == HOURS_PER_REPR * DAYS_PER_MONTH

TIME_LIMIT_SEC == 120

DEFAULT_GAS_HEAT_RATE == 8500

\* round(x, d) of Python on n units of which den make one unit of the result:
\* to the nearest, a tie to the even neighbour.
round(n, den) ==
    IF 2 * (n % den) < den THEN n \div den
    ELSE IF 2 * (n % den) > den THEN n \div den + 1
    ELSE IF (n \div den) % 2 = 0 THEN n \div den ELSE n \div den + 1

\* a * b = q * c + r with r < c, for a > 0 and b > 0, a hexadecimal digit of a
\* at a time: the product of a and b is not formed, so that nothing leaves 32
\* bits.
MulDivStep(h, a, b, c) ==
    [ q |-> 16 * h.q + (16 * h.r + (a % 16) * b) \div c, r |-> (16 * h.r + (a % 16) * b) % c ]

RECURSIVE MulDivLoop(_, _, _)
MulDivLoop(a, b, c) ==
    IF a <= 0 \/ b <= 0 THEN [q |-> 0, r |-> 0]
    ELSE MulDivStep(MulDivLoop(a \div 16, b, c), a, b, c)

\* a * b / c, rounded down.
MulDiv(a, b, c) == MulDivLoop(a, b, c).q

\* a / b to `digits` decimals by long division: the digits and the remainder.
RECURSIVE LongDiv(_, _, _, _)
LongDiv(q, r, b, digits) ==
    IF digits = 0 THEN [q |-> q, r |-> r]
    ELSE LongDiv(q * 10 + (r * 10) \div b, (r * 10) % b, b, digits - 1)

HalfEven(d, b) ==
    IF 2 * d.r < b THEN d.q
    ELSE IF 2 * d.r > b THEN d.q + 1
    ELSE IF d.q % 2 = 0 THEN d.q ELSE d.q + 1

\* round(a / b, digits), for a >= 0 and b > 0.
Quotient(a, b, digits) == HalfEven(LongDiv(a \div b, a % b, b, digits), b)

\* math.sqrt of a percentage, in 0.0001.
RECURSIVE SqrtBetween(_, _, _)
SqrtBetween(lo, hi, x) ==
    IF hi - lo <= 1 THEN lo
    ELSE IF ((lo + hi) \div 2) * ((lo + hi) \div 2) <= x THEN SqrtBetween((lo + hi) \div 2, hi, x)
    ELSE SqrtBetween(lo, (lo + hi) \div 2, x)

sqrt(pct) == SqrtBetween(0, 10001, pct * 1000000)

\* sum(s[lo..hi]), by halves.
RECURSIVE SumRange(_, _, _)
SumRange(s, lo, hi) ==
    IF lo > hi THEN 0
    ELSE IF lo = hi THEN s[lo]
    ELSE SumRange(s, lo, (lo + hi) \div 2) + SumRange(s, (lo + hi) \div 2 + 1, hi)

\* sum of the first i elements of s.
SumSeq(s, i) == SumRange(s, 1, i)

\* main.py COST_SCENARIOS: prices in dollars, efficiencies and wacc in percent,
\* the gas price in cents per MMBtu.
COST_SCENARIOS ==
    [ base |-> [ solar_capex_per_kw |-> 950, battery_energy_capex_per_kwh |-> 250,
                 battery_power_capex_per_kw |-> 150, solar_om_per_kw_year |-> 12,
                 battery_om_per_kw_year |-> 8, inverter_efficiency |-> 97,
                 battery_rte |-> 87, wacc |-> 6, solar_life_years |-> 30,
                 battery_life_years |-> 20, gas_price_per_mmbtu |-> 350 ],
      low |-> [ solar_capex_per_kw |-> 750, battery_energy_capex_per_kwh |-> 180,
                battery_power_capex_per_kw |-> 120, solar_om_per_kw_year |-> 10,
                battery_om_per_kw_year |-> 6, inverter_efficiency |-> 97,
                battery_rte |-> 90, wacc |-> 5, solar_life_years |-> 30,
                battery_life_years |-> 20, gas_price_per_mmbtu |-> 350 ],
      high |-> [ solar_capex_per_kw |-> 1200, battery_energy_capex_per_kwh |-> 320,
                 battery_power_capex_per_kw |-> 200, solar_om_per_kw_year |-> 15,
                 battery_om_per_kw_year |-> 10, inverter_efficiency |-> 96,
                 battery_rte |-> 85, wacc |-> 8, solar_life_years |-> 30,
                 battery_life_years |-> 20, gas_price_per_mmbtu |-> 500 ],
      high_gas |-> [ solar_capex_per_kw |-> 950, battery_energy_capex_per_kwh |-> 250,
                     battery_power_capex_per_kw |-> 150, solar_om_per_kw_year |-> 12,
                     battery_om_per_kw_year |-> 8, inverter_efficiency |-> 97,
                     battery_rte |-> 87, wacc |-> 6, solar_life_years |-> 30,
                     battery_life_years |-> 20, gas_price_per_mmbtu |-> 600 ] ]

\* (1 + wacc) ** years, in 0.000001, as the product of two powers.
RECURSIVE Compound(_, _)
Compound(wacc, years) ==
    IF years = 0 THEN 1000000
    ELSE IF years = 1 THEN 1000000 + 10000 * wacc
    ELSE MulDiv(Compound(wacc, years \div 2), Compound(wacc, years - years \div 2), 1000000)

\* lcoe.py compute_crf, in 0.0001.
compute_crf(wacc, years) ==
    IF wacc = 0 THEN Quotient(1, years, 4)
    ELSE (wacc * Quotient(Compound(wacc, years), Compound(wacc, years) - 1000000, 4)) \div 100

\* solver.py _gas_variable_cost, in cents per MWh.
_gas_variable_cost(heat_rate, gas_price) == (heat_rate * gas_price) \div 1000

\* lcoe.py compute_annual_costs: capacities in kW and kWh, the gas generation
\* in 0.01 MWh; each cost per kW and year is taken to the cent.
compute_annual_costs(solar_kw, batt_power_kw, batt_energy_kwh, gas_gen, gas_variable_cost, cost_params) ==
    [ solar_cost |->
        MulDiv(solar_kw,
               (cost_params.solar_capex_per_kw
                  * compute_crf(cost_params.wacc, cost_params.solar_life_years)) \div 100
                 + cost_params.solar_om_per_kw_year * 100, 100),
      battery_cost |->
        MulDiv(batt_energy_kwh,
               (cost_params.battery_energy_capex_per_kwh
                  * compute_crf(cost_params.wacc, cost_params.battery_life_years)) \div 100,
               100)
        + MulDiv(batt_power_kw,
                 (cost_params.battery_power_capex_per_kw
                    * compute_crf(cost_params.wacc, cost_params.battery_life_years)) \div 100
                   + cost_params.battery_om_per_kw_year * 100, 100),
      gas_cost |-> MulDiv(gas_gen, gas_variable_cost, 10000) ]

TotalCost(costs) == costs.solar_cost + costs.battery_cost + costs.gas_cost

Hours == 0..(HOURS_PER_REPR - 1)

\* Lines 113-124: the mean of hour i of the day over the days of the month,
\* round(avg, 5).
MonthHourMean(profile_8760, i) ==
    Quotient(SumSeq([d \in 1..DAYS_PER_MONTH |-> profile_8760[(d - 1) * HOURS_PER_REPR + i]],
                    DAYS_PER_MONTH),
             DAYS_PER_MONTH, 0)

\* solver.py compress_to_representative_days: the list of the means, hour by
\* hour.
compress_to_representative_days(profile_8760) ==
    IF Len(profile_8760) # HOURS_PER_YEAR
    THEN [error |-> "ValueError", value |-> <<>>]
    ELSE [error |-> "",
          value |-> SubSeq([i \in 1..HOURS_PER_REPR |-> MonthHourMean(profile_8760, i)],
                           1, HOURS_PER_REPR)]

\* random.Random(42): the stream of the seed, the same at every call.  The
\* numbers rng.random() gives are (2 x + 1) / (2 RandomDen) for the x of
\* RandomStream, which visits every x below RandomDen once in a period, as an
\* equidistributed generator visits every interval of that width.
RandomDen == 11 * HOURS_PER_REPR + 1

RandomStream == [i \in 1..RandomDen |-> (7 * i) % RandomDen]

\* Lines 161-166: the weight of every hour, 1.0 - cf + 0.1.
Weights(solar_profile_288) == [i \in 1..HOURS_PER_REPR |-> 110000 - solar_profile_288[i]]

\* Lines 175-180: the first hour whose cumulative probability reaches r, if one does.
Drawn(weights, x) ==
    { t \in Hours :
        /\ (2 * x + 1) * SumSeq(weights, HOURS_PER_REPR) <= 2 * RandomDen * SumSeq(weights, t + 1)
        /\ \A u \in 0..(t - 1) :
              (2 * x + 1) * SumSeq(weights, HOURS_PER_REPR) > 2 * RandomDen * SumSeq(weights, u + 1) }

\* Lines 173-180: the hour each draw of a period of the stream adds.
Draws(weights) == [i \in 1..RandomDen |-> Drawn(weights, RandomStream[i])]

\* Lines 172-180: the set the while loop holds after k draws of the stream.
ConflictSetAfter(draws, k) == UNION { draws[i] : i \in 1..k }

\* The first of the draws lo..hi after which the set holds n_conflict hours,
\* given that it does after draw hi: the set only grows.
RECURSIVE LastDraw(_, _, _, _)
LastDraw(draws, n_conflict, lo, hi) ==
    IF lo = hi THEN lo
    ELSE IF Cardinality(ConflictSetAfter(draws, (lo + hi) \div 2)) >= n_conflict
    THEN LastDraw(draws, n_conflict, lo, (lo + hi) \div 2)
    ELSE LastDraw(draws, n_conflict, (lo + hi) \div 2 + 1, hi)

\* Lines 172-180: the while loop, which stops after the first draw that fills
\* the set.  A period of the stream that leaves the set short leaves it short
\* for ever.
WhileShort(n_conflict, draws) ==
    IF Cardinality(ConflictSetAfter(draws, RandomDen)) < n_conflict
    THEN [hang |-> TRUE, value |-> ConflictSetAfter(draws, RandomDen)]
    ELSE [hang |-> FALSE,
          value |-> ConflictSetAfter(draws, LastDraw(draws, n_conflict, 0, RandomDen))]

ConflictLoop(n_conflict, weights) == WhileShort(n_conflict, Draws(weights))

\* _generate_conflict_hours with n_conflict rounded down.
ConflictHoursRoundedDown(conflict_pct, solar_profile_288) ==
    IF (conflict_pct * HOURS_PER_REPR) \div 100000 = 0 THEN [hang |-> FALSE, value |-> {}]
    ELSE ConflictLoop((conflict_pct * HOURS_PER_REPR) \div 100000, Weights(solar_profile_288))

\* solver.py _generate_conflict_hours.
_generate_conflict_hours(conflict_pct, solar_profile_288) ==
    IF round(conflict_pct * HOURS_PER_REPR, 100000) = 0 THEN [hang |-> FALSE, value |-> {}]
    ELSE ConflictLoop(round(conflict_pct * HOURS_PER_REPR, 100000), Weights(solar_profile_288))

(***************************************************************************)
(* model.py: the linear program and its solution                           *)
(***************************************************************************)
\* The arguments of build_and_solve: the load in 0.01 MW, the profile and the
\* gas share in 0.00001, the gas capacity and the solar limit in 0.00001 MW.
\* Lines 83-85: inverter_eff in percent and sqrt_rte in 0.0001 go with them.
Problem(solar_profile_288, target_load_mw, max_gas_backup_pct, cost_params, gas_capacity_mw, max_solar_mw, conflict_hours) ==
    [ solar_profile_288 |-> solar_profile_288, target_load_mw |-> target_load_mw,
      max_gas_backup_pct |-> max_gas_backup_pct, cost_params |-> cost_params,
      gas_capacity_mw |-> gas_capacity_mw, max_solar_mw |-> max_solar_mw,
      conflict_hours |-> conflict_hours,
      inverter_eff |-> cost_params.inverter_efficiency,
      sqrt_rte |-> sqrt(cost_params.battery_rte) ]

\* The load in the unit of the dispatch variables.
Load(p) == p.target_load_mw * 1000

\* Lines 83-85 and 241: what the inverter and the battery deliver and draw.
SolarOutput(p, solar_gen) == (solar_gen * p.inverter_eff) \div 100

Discharged(p, batt_discharge) == MulDiv(batt_discharge, p.sqrt_rte, 10000)

Charged(p, batt_charge) ==
    IF batt_charge = 0 THEN 0 ELSE MulDiv(batt_charge, 10000, p.sqrt_rte) + 1

\* The hour before t, the last hour before the first (line 172).
Prev(t) == IF t = 1 THEN HOURS_PER_REPR ELSE t - 1

\* Without lines 154-162.
NoEnergyBalance(p, v) == TRUE

\* Lines 154-162.
EnergyBalance(p, v) ==
    \A t \in 1..HOURS_PER_REPR :
        SolarOutput(p, v.rows[t].solar_gen) + Discharged(p, v.rows[t].batt_discharge)
            - Charged(p, v.rows[t].batt_charge) + v.rows[t].gas_gen >= Load(p)

\* Line 165.
SolarLimit(p, v) ==
    \A t \in 1..HOURS_PER_REPR :
        v.rows[t].solar_gen <= MulDiv(v.solar_cap, p.solar_profile_288[t], 100000)

\* Lines 168-169.
PowerLimits(p, v) ==
    \A t \in 1..HOURS_PER_REPR :
        v.rows[t].batt_charge <= v.batt_power /\ v.rows[t].batt_discharge <= v.batt_power

\* Lines 172-179 without the wrap from the last step to the first.
StateOfChargeOpen(p, v) ==
    /\ \A t \in 2..HOURS_PER_REPR :
          v.rows[t].soc = v.rows[t - 1].soc + v.rows[t].batt_charge - v.rows[t].batt_discharge
    /\ \A t \in 1..HOURS_PER_REPR : v.rows[t].soc <= v.batt_energy

\* Lines 172-179.
StateOfCharge(p, v) ==
    \A t \in 1..HOURS_PER_REPR :
        /\ v.rows[t].soc = v.rows[Prev(t)].soc + v.rows[t].batt_charge - v.rows[t].batt_discharge
        /\ v.rows[t].soc <= v.batt_energy

\* Line 184.
GasCap(p, v) == \A t \in 1..HOURS_PER_REPR : v.rows[t].gas_gen <= p.gas_capacity_mw

\* Without lines 187-189.
NoConflictHour(p, v) == TRUE

\* Lines 187-189: hour t of the source is row t + 1.
ConflictHour(p, v) == \A t \in p.conflict_hours : v.rows[t + 1].gas_gen = 0

\* Lines 198-201: max_gas_backup_pct * target_load_mw * HOURS_PER_REPR.
GasBudget(p) == (p.target_load_mw * HOURS_PER_REPR * p.max_gas_backup_pct) \div 100

GasBackupLimit(p, v) ==
    SumSeq([t \in 1..HOURS_PER_REPR |-> v.rows[t].gas_gen], HOURS_PER_REPR) <= GasBudget(p)

\* Lines 125-134: lowBound=0 of every variable.
LowBound(p, v) ==
    /\ v.solar_cap >= 0 /\ v.batt_power >= 0 /\ v.batt_energy >= 0
    /\ \A t \in 1..HOURS_PER_REPR :
          /\ v.rows[t].solar_gen >= 0 /\ v.rows[t].batt_charge >= 0
          /\ v.rows[t].batt_discharge >= 0 /\ v.rows[t].gas_gen >= 0 /\ v.rows[t].soc >= 0

\* Lines 192, 195, 204-205.
CapacityLimits(p, v) ==
    /\ v.batt_energy <= 6 * v.batt_power
    /\ v.batt_power <= v.solar_cap
    /\ p.max_solar_mw # NoneV => v.solar_cap <= p.max_solar_mw.n

\* The constraints of the program, lines 125-205.
Constraints(p, v) ==
    /\ LowBound(p, v)
    /\ EnergyBalance(p, v)
    /\ SolarLimit(p, v)
    /\ PowerLimits(p, v)
    /\ StateOfCharge(p, v)
    /\ GasCap(p, v)
    /\ ConflictHour(p, v)
    /\ GasBackupLimit(p, v)
    /\ CapacityLimits(p, v)

(***************************************************************************)
(* The solver.  prob.solve runs a program outside the repository: what it  *)
(* gives is a choice among the outcomes it can give.  A solver that        *)
(* reports Optimal gives a point that satisfies the constraints; one that  *)
(* reports another status leaves the variables without a value or with the *)
(* values it stopped at, which need not satisfy them.                      *)
(***************************************************************************)
\* The dispatches of one hour the points below are made of: gas at none, at an
\* equal share of the gas budget or at the whole load, the rest of the load from
\* the panels or from the battery, or the panels serving the load and
\* charging what a discharge hour takes, or nothing at all.
SolarFor(p, mw) == (mw * 100 + p.inverter_eff - 1) \div p.inverter_eff

DischargeFor(p, mw) == IF mw = 0 THEN 0 ELSE MulDiv(mw, 10000, p.sqrt_rte) + 1

GasLevels(p) == {0, GasBudget(p) \div HOURS_PER_REPR, Load(p)}

HourChoices(p) ==
    { [solar_gen |-> SolarFor(p, Load(p) - g), batt_charge |-> 0, batt_discharge |-> 0,
       gas_gen |-> g] : g \in GasLevels(p) }
    \cup { [solar_gen |-> 0, batt_charge |-> 0, batt_discharge |-> DischargeFor(p, Load(p) - g),
            gas_gen |-> g] : g \in GasLevels(p) }
    \cup { [solar_gen |-> SolarFor(p, Load(p) + Charged(p, DischargeFor(p, Load(p)))),
            batt_charge |-> DischargeFor(p, Load(p)), batt_discharge |-> 0, gas_gen |-> 0],
           [solar_gen |-> 0, batt_charge |-> 0, batt_discharge |-> 0, gas_gen |-> 0] }

\* The charge after each hour of a dispatch, counted from the charge before the
\* first hour, and the least it goes to.
RECURSIVE ChargeAfter(_, _)
ChargeAfter(rows, t) ==
    IF t = 0 THEN 0 ELSE ChargeAfter(rows, t - 1) + rows[t].batt_charge - rows[t].batt_discharge

RECURSIVE Least(_, _), Most(_, _)
Least(s, i) == IF i = 1 THEN s[1] ELSE Min(s[i], Least(s, i - 1))

Most(s, i) == IF i = 1 THEN s[1] ELSE Max(s[i], Most(s, i - 1))

\* The state of charge that goes with a dispatch and is 0 at its lowest.
WithSoc(rows, after) ==
    [t \in 1..HOURS_PER_REPR |->
        [ solar_gen |-> rows[t].solar_gen, batt_charge |-> rows[t].batt_charge,
          batt_discharge |-> rows[t].batt_discharge, gas_gen |-> rows[t].gas_gen,
          soc |-> after[t] - Least(after, HOURS_PER_REPR) ]]

\* The capacity of panels that gives solar_gen at capacity factor cf.
SolarNeed(solar_gen, cf) ==
    IF solar_gen = 0 \/ cf = 0 THEN 0 ELSE MulDiv(solar_gen, 100000, cf) + 1

\* The least capacities that carry a dispatch: every capacity has a cost.
Sized(p, rows, batt_energy, batt_flow) ==
    [ rows |-> rows,
      batt_energy |-> batt_energy,
      batt_power |-> Max(batt_flow, (batt_energy + 5) \div 6),
      solar_cap |-> Max(Max(batt_flow, (batt_energy + 5) \div 6),
                        Most([t \in 1..HOURS_PER_REPR |->
                                SolarNeed(rows[t].solar_gen, p.solar_profile_288[t])],
                             HOURS_PER_REPR)) ]

PointOf(p, rows) ==
    Sized(p, rows,
          Most([t \in 1..HOURS_PER_REPR |-> rows[t].soc], HOURS_PER_REPR),
          Most([t \in 1..HOURS_PER_REPR |-> Max(rows[t].batt_charge, rows[t].batt_discharge)],
               HOURS_PER_REPR))

Points(p) ==
    { PointOf(p, WithSoc(rows, [t \in 1..HOURS_PER_REPR |-> ChargeAfter(rows, t)]))
        : rows \in [1..HOURS_PER_REPR -> HourChoices(p)] }

\* pulp.LpStatus.
LpStatus == {"Optimal", "Not Solved", "Infeasible", "Unbounded", "Undefined"}

\* The statuses of a solver that ran to its end or to its time limit.
Reported == {"Optimal", "Not Solved", "Infeasible"}

\* The points a solver stops at short of an optimum: the same dispatch at every
\* hour, whatever the constraints.
Stopped(p) ==
    { PointOf(p, WithSoc([t \in 1..HOURS_PER_REPR |-> row],
                         [t \in 1..HOURS_PER_REPR |-> t * (row.batt_charge - row.batt_discharge)]))
        : row \in HourChoices(p) }

\* What a solver that does not raise leaves in the variables.
Solutions(p) ==
    { [status |-> "Optimal", values |-> v] : v \in { x \in Points(p) : Constraints(p, x) } }
    \cup { [status |-> s, values |-> v] : s \in Reported \ {"Optimal"},
                                          v \in {NoneV} \cup Stopped(p) }

\* Lines 210-217: HiGHS_CMD raises PulpSolverError or solves; PULP_CBC_CMD is
\* then what solves, or raises in its turn.
Outcomes(p) ==
    { [highs |-> "solved", cbc |-> "", solution |-> s] : s \in Solutions(p) }
    \cup { [highs |-> "PulpSolverError", cbc |-> "solved", solution |-> s] : s \in Solutions(p) }
    \cup { [highs |-> "PulpSolverError", cbc |-> "PulpSolverError", solution |-> NoneV] }

\* Lines 210-217: the solvers prob.solve is given, in order, each with its limit.
HIGHS == [solver |-> "HiGHS_CMD", timeLimit |-> TIME_LIMIT_SEC]

CBC == [solver |-> "PULP_CBC_CMD", timeLimit |-> TIME_LIMIT_SEC]

\* PULP_CBC_CMD run whether or not HiGHS_CMD raised.
SolversBoth(outcome) == <<HIGHS, CBC>>

Solvers(outcome) == IF outcome.highs = "PulpSolverError" THEN <<HIGHS, CBC>> ELSE <<HIGHS>>

\* pulp.value(x) or 0.0, for every variable: a variable without a value reads 0.
ValueOrZero(values) ==
    IF values = NoneV
    THEN [ solar_cap |-> 0, batt_power |-> 0, batt_energy |-> 0,
           rows |-> [t \in 1..HOURS_PER_REPR |->
                       [solar_gen |-> 0, batt_charge |-> 0, batt_discharge |-> 0,
                        gas_gen |-> 0, soc |-> 0]] ]
    ELSE values

\* Lines 236-253: the dispatch rows, in 0.0001 MW.
hourly_dispatch(p, v) ==
    [t \in 1..HOURS_PER_REPR |->
        [ hour |-> t - 1,
          solar_mw |-> round(v.rows[t].solar_gen * p.inverter_eff, 1000),
          battery_mw |-> round(Discharged(p, v.rows[t].batt_discharge)
                                 - Charged(p, v.rows[t].batt_charge), 10),
          gas_mw |-> round(v.rows[t].gas_gen, 10),
          load_mw |-> p.target_load_mw * 100,
          soc |-> round(v.rows[t].soc, 10) ]]

\* Lines 219-275: the result, capacities in 0.001 MW and energy in 0.01 MWh.
Extracted(p, status, v) ==
    [ solar_capacity_mw |-> round(v.solar_cap, 100),
      battery_power_mw |-> round(v.batt_power, 100),
      battery_energy_mwh |-> round(v.batt_energy, 100),
      hourly_dispatch |-> hourly_dispatch(p, v),
      gas_gen_total |->
        round(SumSeq([t \in 1..HOURS_PER_REPR |-> v.rows[t].gas_gen], HOURS_PER_REPR)
                * DAYS_PER_MONTH, 1000),
      solar_gen_total |->
        round(SumSeq([t \in 1..HOURS_PER_REPR |-> v.rows[t].solar_gen], HOURS_PER_REPR)
                * DAYS_PER_MONTH, 1000),
      solver_status |-> status ]

\* model.py build_and_solve, the solver giving outcome: the error raised, the
\* solvers prob.solve was given, what they did, and the result returned.
build_and_solve(p, outcome) ==
    IF Len(p.solar_profile_288) # HOURS_PER_REPR
    THEN [error |-> "ValueError", solvers |-> <<>>, outcome |-> NoneV, value |-> NoneV]
    ELSE IF outcome.solution = NoneV
    THEN [error |-> "PulpSolverError", solvers |-> Solvers(outcome), outcome |-> outcome,
          value |-> NoneV]
    ELSE [error |-> "", solvers |-> Solvers(outcome), outcome |-> outcome,
          value |-> Extracted(p, outcome.solution.status,
                              ValueOrZero(outcome.solution.values))]

(***************************************************************************)
(* solver.py run_optimization and main.py optimize                         *)
(***************************************************************************)
\* A run of run_optimization: the error it raised if it raised one, what it
\* built on the way, and the response it returned.
OptimizationRun(error, solar_profile_288, conflict_hours, problem, solved, value) ==
    [ error |-> error, solar_profile_288 |-> solar_profile_288,
      conflict_hours |-> conflict_hours, problem |-> problem,
      solvers |-> IF solved = NoneV THEN <<>> ELSE solved.solvers,
      outcome |-> IF solved = NoneV THEN NoneV ELSE solved.outcome,
      result |-> IF solved = NoneV THEN NoneV ELSE solved.value, value |-> value ]

\* Lines 387-474: the response, net_lcoe in 0.01 $/MWh, gas_backup_actual in
\* 0.0001, capacities in 0.01 MW, for the load in 0.01 MW.
Assembled(req, result, costs, n_conflict) ==
    [ solar_capacity_mw |-> round(result.solar_capacity_mw, 10),
      battery_power_mw |-> round(result.battery_power_mw, 10),
      battery_energy_mwh |-> round(result.battery_energy_mwh, 10),
      net_lcoe |-> Quotient(TotalCost(costs) * 100, req.target_load_mw * HOURS_PER_YEAR, 2),
      gas_backup_actual |->
        Quotient(result.gas_gen_total, req.target_load_mw * HOURS_PER_YEAR, 4),
      conflict_hours |-> IF req.conflict_pct # NoneV THEN Num(n_conflict) ELSE NoneV,
      solver_status |-> result.solver_status,
      hourly_dispatch |-> result.hourly_dispatch ]

\* Lines 346-350 and 392-399.
CostsOf(req, cost_params, result) ==
    compute_annual_costs(result.solar_capacity_mw, result.battery_power_mw,
                         result.battery_energy_mwh, result.gas_gen_total,
                         _gas_variable_cost(IF req.gas_heat_rate_btu_kwh # NoneV
                                            THEN req.gas_heat_rate_btu_kwh.n
                                            ELSE DEFAULT_GAS_HEAT_RATE,
                                            cost_params.gas_price_per_mmbtu),
                         cost_params)

\* Lines 372-489: build_and_solve has been called and gave `solved`.
AfterSolve(req, cost_params, solar_profile_288, conflict_hours, p, solved) ==
    IF solved.error # ""
    THEN OptimizationRun(solved.error, solar_profile_288, conflict_hours, p, solved, NoneV)
    ELSE OptimizationRun("", solar_profile_288, conflict_hours, p, solved,
                         Assembled(req, solved.value, CostsOf(req, cost_params, solved.value),
                                   IF conflict_hours = NoneV THEN 0
                                   ELSE Cardinality(conflict_hours.s)))

\* Lines 346-382: gas_capacity_mw is target_load_mw.
WithConflicts(req, cost_params, solar_profile_288, conflict_hours, p, outcomes) ==
    { AfterSolve(req, cost_params, solar_profile_288, conflict_hours, p, build_and_solve(p, o))
        : o \in outcomes }

\* Line 75: conflict_hours or set().
OrSet(conflict_hours) == IF conflict_hours = NoneV THEN {} ELSE conflict_hours.s

Profiled(req, cost_params, solar_profile_288, conflict_hours) ==
    WithConflicts(req, cost_params, solar_profile_288, conflict_hours,
                  Problem(solar_profile_288, req.target_load_mw, req.max_gas_backup_pct,
                          cost_params, req.target_load_mw * 1000, req.max_solar_mw,
                          OrSet(conflict_hours)),
                  Outcomes(Problem(solar_profile_288, req.target_load_mw,
                                   req.max_gas_backup_pct, cost_params,
                                   req.target_load_mw * 1000, req.max_solar_mw,
                                   OrSet(conflict_hours))))

\* A Python set, which a variable holds or None.
SetOf(s) == [t |-> "set", s |-> s]

Sample(sampled) == [hang |-> sampled.hang, value |-> SetOf(sampled.value)]

\* Lines 362-367.
Conflicts(req, solar_profile_288) ==
    IF req.conflict_pct # NoneV /\ req.conflict_pct.n > 0
    THEN Sample(_generate_conflict_hours(req.conflict_pct.n, solar_profile_288))
    ELSE [hang |-> FALSE, value |-> NoneV]

\* Lines 316-328: the profile of the request, compressed when it is a year long.
Profile288(solar_profile) ==
    IF Len(solar_profile) = HOURS_PER_YEAR THEN compress_to_representative_days(solar_profile)
    ELSE IF Len(solar_profile) = HOURS_PER_REPR THEN [error |-> "", value |-> solar_profile]
    ELSE [error |-> "ValueError", value |-> <<>>]

Sampled(req, cost_params, profile, conflicts) ==
    IF conflicts.hang
    THEN {OptimizationRun("hang", profile, conflicts.value, NoneV, NoneV, NoneV)}
    ELSE Profiled(req, cost_params, profile, conflicts.value)

Compressed(req, cost_params, profile) ==
    IF profile.error # ""
    THEN {OptimizationRun(profile.error, profile.value, NoneV, NoneV, NoneV, NoneV)}
    ELSE Sampled(req, cost_params, profile.value, Conflicts(req, profile.value))

\* solver.py run_optimization: the runs it can make of a request, one for each
\* outcome of the solver.
run_optimization(req, cost_params) == Compressed(req, cost_params, Profile288(req.solar_profile))

\* An OptimizeRequest whose fields have no bounds.
NoFieldBounds(req) == {}

\* main.py OptimizeRequest, lines 33-45: the fields whose Field(...) bounds the
\* request breaks.  The model leaves out latitude, gas_capacity_factor and
\* solar_cf_hint, which are None in its requests.
OptimizeRequestErrors(req) ==
    { f \in {"max_gas_backup_pct"} : req.max_gas_backup_pct < 0 \/ req.max_gas_backup_pct > 100000 }
    \cup { f \in {"commissioning_year"} :
             req.commissioning_year < 2024 \/ req.commissioning_year > 2040 }
    \cup { f \in {"conflict_pct"} :
             req.conflict_pct # NoneV /\ (req.conflict_pct.n < 0 \/ req.conflict_pct.n > 100000) }
    \cup { f \in {"gas_heat_rate_btu_kwh"} :
             req.gas_heat_rate_btu_kwh # NoneV /\ req.gas_heat_rate_btu_kwh.n <= 0 }
    \cup { f \in {"max_solar_mw"} : req.max_solar_mw # NoneV /\ req.max_solar_mw.n < 0 }

\* The request did not reach run_optimization.
Refused(answer) == [hang |-> FALSE, response |-> answer, optimization |-> NoneV]

\* Lines 276-310: how the handler answers a run of run_optimization.
Answered(r) ==
    [ hang |-> r.error = "hang",
      response |-> IF r.error = "" THEN Returned(200, r.value)
                   ELSE IF r.error = "ValueError" THEN Raised(400, "ValueError", "")
                   ELSE IF r.error = "hang" THEN Raised(0, "hang", "")
                   ELSE Raised(500, r.error, "Optimization failed"),
      optimization |-> r ]

\* main.py optimize, POST /optimize: the ways it can serve the request.
optimize(req) ==
    IF OptimizeRequestErrors(req) # {}
    THEN {Refused(Raised(422, "RequestValidationError", "OptimizeRequest"))}
    ELSE IF req.cost_scenario \notin DOMAIN COST_SCENARIOS
    THEN {Refused(Raised(400, "HTTPException", "Unknown cost_scenario"))}
    ELSE IF req.target_load_mw <= 0
    THEN {Refused(Raised(400, "HTTPException", "target_load_mw must be positive"))}
    ELSE IF req.solar_profile # NoneV
            /\ Len(req.solar_profile) \notin {HOURS_PER_REPR, HOURS_PER_YEAR}
    THEN {Refused(Raised(400, "HTTPException", "solar_profile must have 288 or 8760 entries"))}
    ELSE { Answered(r) : r \in run_optimization(req, COST_SCENARIOS[req.cost_scenario]) }

(***************************************************************************)
(* The requests of POST /optimize                                          *)
(***************************************************************************)
\* A day of HOURS_PER_REPR hours from night to noon, a day without sun, a day
\* with sun at every hour, and a year whose days are alternately clear and dim.
DayProfile == [t \in 1..HOURS_PER_REPR |-> ((t - 1) * 100000) \div (HOURS_PER_REPR - 1)]

DarkProfile == [t \in 1..HOURS_PER_REPR |-> 0]

SunnyProfile == [t \in 1..HOURS_PER_REPR |-> 20000 + 10000 * t]

YearProfile ==
    [k \in 1..HOURS_PER_YEAR |->
        IF ((k - 1) \div HOURS_PER_REPR) % 2 = 0 THEN DayProfile[((k - 1) % HOURS_PER_REPR) + 1]
        ELSE DayProfile[((k - 1) % HOURS_PER_REPR) + 1] \div 2]

\* A request of 1 MW that every check accepts.
BaseRequest ==
    [ plant_id |-> "plant-1", target_load_mw |-> 100, max_gas_backup_pct |-> 5000,
      commissioning_year |-> 2028, cost_scenario |-> "base", conflict_pct |-> NoneV,
      solar_profile |-> DayProfile, gas_heat_rate_btu_kwh |-> NoneV, max_solar_mw |-> NoneV ]

\* Requests that differ from it in one field or two.
HybridRequests ==
    { [BaseRequest EXCEPT !.target_load_mw = x] : x \in {-100, 0, 1, 250} }
    \cup { [BaseRequest EXCEPT !.max_gas_backup_pct = x] : x \in {-1, 0, 6, 5000, 100000, 100001} }
    \cup { [BaseRequest EXCEPT !.conflict_pct = Num(x)]
             : x \in {-1, 0, 16000, 20000, 50000, 83333, 100000, 100001} }
    \cup { [BaseRequest EXCEPT !.conflict_pct = Num(x), !.solar_profile = y]
             : x \in {50000, 100000}, y \in {SunnyProfile, YearProfile} }
    \cup { [BaseRequest EXCEPT !.conflict_pct = Num(x), !.max_gas_backup_pct = 100000]
             : x \in {50000, 100000} }
    \cup { [BaseRequest EXCEPT !.cost_scenario = x] : x \in {"low", "high", "high_gas", "best"} }
    \cup { [BaseRequest EXCEPT !.commissioning_year = x] : x \in {2023, 2024, 2040, 2041} }
    \cup { [BaseRequest EXCEPT !.solar_profile = x]
             : x \in {DarkProfile, SunnyProfile, YearProfile, SubSeq(DayProfile, 2, HOURS_PER_REPR),
                      DayProfile \o <<0>>, <<>>} }
    \cup { [BaseRequest EXCEPT !.solar_profile = SunnyProfile, !.max_gas_backup_pct = 6] }
    \cup { [BaseRequest EXCEPT !.gas_heat_rate_btu_kwh = Num(x)] : x \in {0, 7000} }
    \cup { [BaseRequest EXCEPT !.max_solar_mw = Num(x)] : x \in {-1, 50000, 2000000} }

\* A request of POST /optimize has arrived and has no response yet.
Waiting == Raised(0, "waiting", "")

Receive(req) ==
    /\ run_pc = "idle"
    /\ response # Waiting
    /\ request' = [op |-> "hybrid", payload |-> req]
    /\ response' = Waiting
    /\ optimization' = NoneV
    /\ UNCHANGED <<heap, heap_before, evaluations, base_payload,
                   run_pc, run_c, run_hi, run_best, run_tick>>

\* POST /optimize served in one of the ways the solver allows.
Hybrid(a) ==
    /\ ~a.hang
    /\ response' = a.response
    /\ optimization' = a.optimization
    /\ UNCHANGED <<heap, heap_before, request, evaluations, base_payload,
                   run_pc, run_c, run_hi, run_best, run_tick>>

Optimize == response = Waiting /\ \E a \in optimize(request.payload) : Hybrid(a)

NextHybrid ==
    \/ \E req \in HybridRequests : Receive(req)
    \/ Optimize

SpecHybrid == Init /\ [][NextHybrid]_vars

(***************************************************************************)
(* POST /optimize: the checks before run_optimization                      *)
(***************************************************************************)
\* POST /optimize has been served, and the request it served.
HybridServed == request.op = "hybrid" /\ response # Waiting

\* One of the six conditions fails: a target load that is not positive, a gas
\* share or a conflict share outside [0, 1], a scenario outside the catalog, a
\* profile that is neither a day nor a year long, a year outside [2024, 2040].
SixFail(req) ==
    \/ req.target_load_mw <= 0
    \/ req.max_gas_backup_pct < 0 \/ req.max_gas_backup_pct > 100000
    \/ req.conflict_pct # NoneV /\ (req.conflict_pct.n < 0 \/ req.conflict_pct.n > 100000)
    \/ req.cost_scenario \notin {"base", "low", "high", "high_gas"}
    \/ Len(req.solar_profile) \notin {HOURS_PER_REPR, HOURS_PER_YEAR}
    \/ req.commissioning_year < 2024 \/ req.commissioning_year > 2040

\* The other bounded fields of the request are within their bounds.
OtherFieldsValid(req) ==
    /\ req.gas_heat_rate_btu_kwh # NoneV => req.gas_heat_rate_btu_kwh.n > 0
    /\ req.max_solar_mw # NoneV => req.max_solar_mw.n >= 0

ClientError == response.status \in {400, 422} /\ response.body = NoneV

\* C11 as stated: a request that fails one of the six conditions gets a client
\* error and run_optimization is not invoked; a request that satisfies the six
\* reaches run_optimization.
C11_SixChecks ==
    HybridServed =>
        IF SixFail(request.payload) THEN ClientError /\ optimization = NoneV
        ELSE optimization # NoneV

\* C11 amended: a request that fails one of the six conditions gets a client
\* error and run_optimization is not invoked; a request that satisfies the six
\* reaches run_optimization when its gas heat rate and solar limit, where given,
\* are within their bounds too, and gets a client error without reaching it
\* when they are not.
C11_SixChecksAndFieldBounds ==
    HybridServed =>
        IF SixFail(request.payload) \/ ~OtherFieldsValid(request.payload)
        THEN ClientError /\ optimization = NoneV
        ELSE optimization # NoneV

\* C11: a request that satisfies every check was served by run_optimization.
C11_Reached ==
    /\ HybridServed
    /\ ~SixFail(request.payload)
    /\ optimization # NoneV
    /\ response.status = 200

(***************************************************************************)
(* build_and_solve: the solvers and the result                             *)
(***************************************************************************)
\* build_and_solve has given the program to a solver.
SolverRan == HybridServed /\ optimization # NoneV /\ optimization.solvers # <<>>

\* The solver that ran last reported a status.
StatusReported == SolverRan /\ optimization.outcome.solution # NoneV

\* Every capacity and every field of every dispatch row of a result is a number.
Numeric(result) ==
    /\ {result.solar_capacity_mw, result.battery_power_mw, result.battery_energy_mwh} \subseteq Int
    /\ Len(result.hourly_dispatch) = HOURS_PER_REPR
    /\ \A t \in 1..HOURS_PER_REPR :
          /\ result.hourly_dispatch[t].hour = t - 1
          /\ { result.hourly_dispatch[t].solar_mw, result.hourly_dispatch[t].battery_mw,
               result.hourly_dispatch[t].gas_mw, result.hourly_dispatch[t].load_mw,
               result.hourly_dispatch[t].soc } \subseteq Int

\* Where the solver left the variables without a value the result reports 0.
ZeroForNoValue(result) ==
    /\ result.solar_capacity_mw = 0 /\ result.battery_power_mw = 0
    /\ result.battery_energy_mwh = 0
    /\ \A t \in 1..HOURS_PER_REPR :
          /\ result.hourly_dispatch[t].solar_mw = 0 /\ result.hourly_dispatch[t].battery_mw = 0
          /\ result.hourly_dispatch[t].gas_mw = 0 /\ result.hourly_dispatch[t].soc = 0

\* C12: the first solver build_and_solve invokes is HiGHS, CBC is invoked after
\* it exactly when HiGHS raised PulpSolverError, and both run with the limit of
\* 120 seconds; when the solver that ran last reports a status, build_and_solve
\* raises nothing and returns that status with a number for every capacity and
\* for every field of each of the HOURS_PER_REPR dispatch rows, 0 where the
\* variable has no value.
C12_SolversAndResult ==
    SolverRan =>
        /\ optimization.solvers[1] = [solver |-> "HiGHS_CMD", timeLimit |-> 120]
        /\ Len(optimization.solvers) = IF optimization.outcome.highs = "PulpSolverError" THEN 2 ELSE 1
        /\ Len(optimization.solvers) = 2 =>
              optimization.solvers[2] = [solver |-> "PULP_CBC_CMD", timeLimit |-> 120]
        /\ optimization.outcome.solution # NoneV =>
              /\ optimization.error = ""
              /\ optimization.result.solver_status = optimization.outcome.solution.status
              /\ optimization.result.solver_status \in LpStatus
              /\ Numeric(optimization.result)
              /\ optimization.outcome.solution.values = NoneV => ZeroForNoValue(optimization.result)

\* C12: HiGHS raised, CBC ran and reported a status that is not Optimal without
\* values, and build_and_solve returned.
C12_FallbackReported ==
    /\ StatusReported
    /\ Len(optimization.solvers) = 2
    /\ optimization.outcome.solution.status = "Infeasible"
    /\ optimization.outcome.solution.values = NoneV
    /\ optimization.result.solver_status = "Infeasible"

(***************************************************************************)
(* POST /optimize: the response                                            *)
(***************************************************************************)
\* run_optimization returned a response, and the response.
HybridReturned == HybridServed /\ response.status = 200

\* gas_backup_actual, in 0.0001, is above a share in 0.00001 by more than 1e-6.
AboveShare(gas_backup_actual, max_gas_backup_pct) ==
    gas_backup_actual * 100 > max_gas_backup_pct * 10 + 1

\* C13 as stated: every response satisfies solar_capacity_mw >= 0,
\* battery_power_mw >= 0, battery_energy_mwh <= 6 battery_power_mw,
\* battery_power_mw <= solar_capacity_mw, net_lcoe >= 0 and gas_backup_actual <=
\* max_gas_backup_pct + 1e-6, on the values as reported, whatever the status.
C13_ReportedBounds ==
    HybridReturned =>
        /\ response.body.solar_capacity_mw >= 0
        /\ response.body.battery_power_mw >= 0
        /\ response.body.battery_energy_mwh <= 6 * response.body.battery_power_mw
        /\ response.body.battery_power_mw <= response.body.solar_capacity_mw
        /\ response.body.net_lcoe >= 0
        /\ ~AboveShare(response.body.gas_backup_actual, request.payload.max_gas_backup_pct)

\* C13: the solver reported Optimal for a request with a gas share of 0.00006
\* and the response reports gas_backup_actual = 0.0001.
C13_RoundedAboveShare ==
    /\ HybridReturned
    /\ response.body.solver_status = "Optimal"
    /\ request.payload.max_gas_backup_pct = 6
    /\ response.body.gas_backup_actual = 1

(***************************************************************************)
(* The reported dispatch                                                   *)
(***************************************************************************)
\* What the reported dispatch supplies at row t covers the load within 1e-4 MW.
Covered(row) == row.solar_mw + row.battery_mw + row.gas_mw >= row.load_mw - 1

\* C14 as stated: at every reported dispatch hour solar_mw + battery_mw + gas_mw
\* >= load_mw - 1e-4, for every profile and every gas share.
C14_LoadCovered ==
    HybridReturned =>
        \A t \in 1..HOURS_PER_REPR : Covered(response.body.hourly_dispatch[t])

\* C14 amended: when the solver status is Optimal, at every reported dispatch
\* hour solar_mw + battery_mw + gas_mw >= load_mw - 1e-4.
C14_LoadCoveredWhenOptimal ==
    HybridReturned /\ response.body.solver_status = "Optimal" =>
        \A t \in 1..HOURS_PER_REPR : Covered(response.body.hourly_dispatch[t])

\* C14: an optimal dispatch in which the battery serves an hour and gas a part
\* of another.
C14_BatteryAndGas ==
    /\ HybridReturned
    /\ response.body.solver_status = "Optimal"
    /\ \E t \in 1..HOURS_PER_REPR : response.body.hourly_dispatch[t].battery_mw > 0
    /\ \E t \in 1..HOURS_PER_REPR :
          /\ response.body.hourly_dispatch[t].gas_mw > 0
          /\ response.body.hourly_dispatch[t].solar_mw > 0

\* The values the solver left in the variables, 0 where there is none.
Dispatched == ValueOrZero(optimization.outcome.solution.values)

\* C15 as stated: in every returned dispatch the gas generated is at most
\* max_gas_backup_pct * load * HOURS_PER_REPR in total and between 0 and the load
\* at each hour, the reported gas_backup_actual is at most max_gas_backup_pct,
\* and with a share of 0 every reported gas_mw and gas_backup_actual are 0.
C15_GasShare ==
    HybridReturned =>
        /\ GasBackupLimit(optimization.problem, Dispatched)
        /\ \A t \in 1..HOURS_PER_REPR :
              /\ Dispatched.rows[t].gas_gen >= 0
              /\ Dispatched.rows[t].gas_gen <= Load(optimization.problem)
        /\ response.body.gas_backup_actual * 10 <= request.payload.max_gas_backup_pct
        /\ request.payload.max_gas_backup_pct = 0 =>
              /\ response.body.gas_backup_actual = 0
              /\ \A t \in 1..HOURS_PER_REPR : response.body.hourly_dispatch[t].gas_mw = 0

\* C15: an optimal dispatch keeps the gas within its budget and within the load
\* at every hour, and the reported gas_backup_actual is above the share.
C15_WithinBudgetAboveShare ==
    /\ HybridReturned
    /\ response.body.solver_status = "Optimal"
    /\ GasBackupLimit(optimization.problem, Dispatched)
    /\ \A t \in 1..HOURS_PER_REPR : Dispatched.rows[t].gas_gen <= Load(optimization.problem)
    /\ response.body.gas_backup_actual * 10 > request.payload.max_gas_backup_pct

(***************************************************************************)
(* Conflict hours                                                          *)
(***************************************************************************)
\* The conflict set built for the request, empty when none was built.
ConflictSet == OrSet(optimization.conflict_hours)

GasFreeConflictHours ==
    \A t \in ConflictSet : response.body.hourly_dispatch[t + 1].gas_mw = 0

\* C16 as stated: at every hour of the conflict set built for the request the
\* reported dispatch has gas_mw = 0.
C16_NoGasInConflictHours == HybridReturned => GasFreeConflictHours

\* C16 amended: when the solver status is Optimal, or the solver left the
\* variables without a value, at every hour of the conflict set built for the
\* request the reported dispatch has gas_mw = 0.
C16_NoGasInConflictHoursWhenOptimal ==
    /\ HybridReturned
    /\ \/ response.body.solver_status = "Optimal"
       \/ optimization.outcome.solution.values = NoneV
    => GasFreeConflictHours

\* C16: an optimal dispatch that burns gas at an hour outside a conflict set
\* that is not empty.
C16_GasOutsideConflictHours ==
    /\ HybridReturned
    /\ response.body.solver_status = "Optimal"
    /\ ConflictSet # {}
    /\ \E t \in Hours \ ConflictSet : response.body.hourly_dispatch[t + 1].gas_mw > 0

\* The request that has arrived passes the checks before run_optimization and
\* names a conflict share; the profile the sampler is given for it.
SamplerRequest ==
    /\ request.op = "hybrid"
    /\ ~SixFail(request.payload)
    /\ OtherFieldsValid(request.payload)
    /\ request.payload.conflict_pct # NoneV

SamplerProfile == Profile288(request.payload.solar_profile).value

\* _generate_conflict_hours(f, profile) ends and gives exactly round(f *
\* HOURS_PER_REPR) hours, all of them representative hours.
ExactSample(f, profile) ==
    /\ ~_generate_conflict_hours(f, profile).hang
    /\ _generate_conflict_hours(f, profile).value \subseteq Hours
    /\ Cardinality(_generate_conflict_hours(f, profile).value)
         = Max(round(f * HOURS_PER_REPR, 100000), 0)

\* C17: for a conflict share f in (0, 1] and a profile in [0, 1] the sampler
\* ends and returns exactly round(f * HOURS_PER_REPR) distinct hours out of
\* 0..HOURS_PER_REPR - 1; the set built for a request is the set another call
\* with the same share and profile returns; for f <= 0 the set is empty.
C17_ConflictSampler ==
    SamplerRequest =>
        /\ ExactSample(request.payload.conflict_pct.n, SamplerProfile)
        /\ ExactSample(- request.payload.conflict_pct.n, SamplerProfile)
        /\ _generate_conflict_hours(- request.payload.conflict_pct.n, SamplerProfile).value = {}
        /\ _generate_conflict_hours(0, SamplerProfile).value = {}
        /\ HybridServed /\ request.payload.conflict_pct.n > 0 =>
              /\ optimization.conflict_hours
                   = SetOf(_generate_conflict_hours(request.payload.conflict_pct.n,
                                                    optimization.solar_profile_288).value)
              /\ optimization.solar_profile_288 = SamplerProfile

\* C17: a share of one half of the hours, which is a tie between two counts,
\* was sampled over a profile with a night hour and left an hour out.
C17_TieSampled ==
    /\ SamplerRequest /\ HybridServed
    /\ request.payload.conflict_pct.n = 50000
    /\ request.payload.solar_profile = DayProfile
    /\ ConflictSet # {} /\ ConflictSet # Hours
    /\ Cardinality(ConflictSet) = round(HOURS_PER_REPR, 2)


(***************************************************************************)
(* Properties of the model building                                        *)
(***************************************************************************)
\* The model of the last request before line 211: the overrides merged and the
\* bridges applied, the tiers not yet reconciled.
MergedOf(s, m) == Contents(Bridges(m, s.v.a), Ref(m.a)).d
MergedBy(s) == MergedOf(s, _deep_merge(s.h, DefaultRoot, SectionOf(s.h, s.v.a, "byoc_inputs")))
MergedModel == MergedBy(Store(heap_before, request.payload))

MergedTiers == MergedModel.curtailment.d.tiers.l
BuiltTiers == RequestModel.curtailment.d.tiers.l
PeakMw == MergedModel.load_profile.d.peak_it_load_mw.n

NamedTier1(tier) == "name" \in DOMAIN tier.d /\ tier.d.name = Str("tier1")

\* The place of the first tier named tier1 in the merged list.
Tier1At ==
    CHOOSE i \in 1..Len(MergedTiers) :
        /\ NamedTier1(MergedTiers[i])
        /\ \A j \in 1..(i - 1) : ~NamedTier1(MergedTiers[j])

\* The call is one C18 speaks of: tier1 is in the merged list, the peak is positive.
Reconcilable ==
    /\ Called
    /\ PeakMw > 0
    /\ \E i \in 1..Len(MergedTiers) : NamedTier1(MergedTiers[i])

OtherTiersKept ==
    /\ Len(BuiltTiers) = Len(MergedTiers)
    /\ \A i \in 1..Len(MergedTiers) : i # Tier1At => BuiltTiers[i] = MergedTiers[i]

TierSumRejected ==
    /\ response.error = "ValueError"
    /\ response.detail = "curtailment tier MW values must sum to peak_it_load_mw"

\* The mw of the tiers other than tier1, together.
OtherTotal ==
    MwTotal(MergedTiers, 1)
      - (IF "mw" \in DOMAIN MergedTiers[Tier1At].d THEN MergedTiers[Tier1At].d.mw.n ELSE 0)

\* C18 as stated: for every payload whose merged tier list has a tier named
\* tier1 and whose peak is positive, the tier mw values of the built model sum
\* to peak_it_load_mw within 1e-3, no tier other than tier1 has another mw, and
\* the payload is not rejected by the tier-sum guardrail.
C18_AlwaysReconciled ==
    Reconcilable =>
        /\ Abs(MwTotal(BuiltTiers, 1) - PeakMw) <= 1
        /\ OtherTiersKept
        /\ ~TierSumRejected

\* C18: the same, for the payloads whose other tiers sum to no more than the
\* peak and 1e-3; when they sum to more and the tiers mismatch, tier1 is
\* brought to 0, the sum stays that of the others and the call ends in a
\* ValueError.
C18_ReconciledWhenOthersFit ==
    Reconcilable =>
        /\ OtherTiersKept
        /\ RequestModel.load_profile.d.peak_it_load_mw.n = PeakMw
        /\ OtherTotal <= PeakMw + 1 =>
              /\ Abs(MwTotal(BuiltTiers, 1) - PeakMw) <= 1
              /\ ~TierSumRejected
        /\ (OtherTotal > PeakMw + 1 /\ Abs(MwTotal(MergedTiers, 1) - PeakMw) > 1) =>
              /\ BuiltTiers[Tier1At].d.mw = Num(0)
              /\ MwTotal(BuiltTiers, 1) = OtherTotal
              /\ response.error = "ValueError"

\* C18: a payload whose tiers did not sum to the peak was reconciled by a new
\* tier1 and gave a result.
C18_Tier1Adjusted ==
    /\ Reconcilable
    /\ Abs(MwTotal(MergedTiers, 1) - PeakMw) > 1
    /\ BuiltTiers[Tier1At] # MergedTiers[Tier1At]
    /\ MwTotal(BuiltTiers, 1) = PeakMw
    /\ response.error = "none"


(***************************************************************************)
(* _deep_merge, called on trees of every shape                             *)
(***************************************************************************)
\* Base trees: empty, flat, nested once and twice with lists, and the default
\* tree.
MergeBases ==
    { Dict(EmptyMap),
      Dict([a |-> Num(1), b |-> Num(2)]),
      Dict([a |-> Dict([x |-> Num(1), y |-> Num(2)]), b |-> Num(2)]),
      Dict([a |-> Dict([x |-> Dict([p |-> Num(1), q |-> Num(2)]),
                        y |-> List(<<Num(1), Num(2)>>)]),
            b |-> List(<<Dict([p |-> Num(1)])>>)]),
      DEFAULT_BYOC_INPUTS }

\* What an override holds at a key: a scalar, None, a list, mappings of one
\* and two levels.
OverrideValues ==
    { Num(7), NoneV, List(<<Num(7)>>), Dict(EmptyMap), Dict([x |-> Num(7)]),
      Dict([x |-> Dict([p |-> Num(7)])]), Dict([x |-> Dict(EmptyMap), z |-> Num(7)]) }

\* Overrides: every choice of values at the keys a and c, and two of the
\* default tree's sections.
MergeOverrides ==
    { Dict(d) : d \in UNION { [D -> OverrideValues] : D \in SUBSET {"a", "c"} } }
      \cup { Dict(Analysis(3)), Dict(Analysis(2) @@ Tiers(30000)) }

\* The call self._deep_merge(base, override) on two trees just built: the heap
\* before it, where base and override are, and what it returns.
MergeCall(h, base, override) ==
    [ before |-> Store(Store(h, base).h, override).h,
      base |-> Store(h, base).v,
      override |-> Store(Store(h, base).h, override).v,
      merged |-> _deep_merge(Store(Store(h, base).h, override).h, Store(h, base).v.a,
                             Store(Store(h, base).h, override).v.a) ]

\* The call has returned: its trees are garbage, the merged tree is what the
\* caller got.
Merged(base, override, call) ==
    /\ run_pc = "idle"
    /\ heap' = Collect(call.merged.h)
    /\ heap_before' = heap
    /\ request' = [op |-> "merge", payload |-> [base |-> base, override |-> override]]
    /\ response' = Returned(0, Contents(call.merged.h, Ref(call.merged.a)))
    /\ evaluations' = <<>>
    /\ base_payload' = NoneV
    /\ UNCHANGED <<run_pc, run_c, run_hi, run_best, run_tick, optimization>>

DeepMerge(base, override) == Merged(base, override, MergeCall(heap, base, override))

NextMerge == \E base \in MergeBases, override \in MergeOverrides : DeepMerge(base, override)

SpecMerge == Init /\ [][NextMerge]_vars

MergeCalled == request.op = "merge"

\* The last call, made again on the heap it was made on.
LastMerge == MergeCall(heap_before, request.payload.base, request.payload.override)

RECURSIVE Overlaid(_, _)
\* The tree C19 describes: the override's value at every key of the override,
\* but the overlaid mappings where both hold a mapping; the base's value at the
\* keys of the base alone.
Overlaid(base, override) ==
    Dict([k \in DOMAIN base.d \cup DOMAIN override.d |->
            IF k \notin DOMAIN override.d THEN base.d[k]
            ELSE IF k \in DOMAIN base.d /\ base.d[k].t = "dict" /\ override.d[k].t = "dict"
            THEN Overlaid(base.d[k], override.d[k])
            ELSE override.d[k]])

\* C19: the merged tree holds the override's value at every key of the
\* override, except where both sides hold a mapping, where the merge recurses;
\* keys of the base alone keep the base's value; a mapping over a scalar and a
\* scalar over a mapping replace it; an empty override gives a tree equal to
\* the base; and the merge writes to no object of the base tree or of the
\* override tree.
C19_DeepMerge ==
    MergeCalled =>
        /\ response.body = Overlaid(request.payload.base, request.payload.override)
        /\ \A k \in DOMAIN request.payload.override.d :
              (~(/\ k \in DOMAIN request.payload.base.d
                 /\ request.payload.base.d[k].t = "dict"
                 /\ request.payload.override.d[k].t = "dict"))
                => response.body.d[k] = request.payload.override.d[k]
        /\ \A k \in DOMAIN request.payload.base.d \ DOMAIN request.payload.override.d :
              response.body.d[k] = request.payload.base.d[k]
        /\ request.payload.override = Dict(EmptyMap) => response.body = request.payload.base
        /\ \A a \in 1..Len(LastMerge.before) : LastMerge.merged.h[a] = LastMerge.before[a]
        /\ Contents(LastMerge.merged.h, LastMerge.base) = request.payload.base
        /\ Contents(LastMerge.merged.h, LastMerge.override) = request.payload.override
        /\ LastMerge.merged.a > Len(LastMerge.before)

\* C19: a mapping was merged into a mapping two levels down, next to a list
\* that the base alone holds.
C19_MergedTwoLevelsDown ==
    /\ MergeCalled
    /\ "a" \in DOMAIN response.body.d
    /\ response.body.d.a = Dict([x |-> Dict([p |-> Num(7), q |-> Num(2)]),
                                 y |-> List(<<Num(1), Num(2)>>)])


(***************************************************************************)
(* Percentages, in the engine and in the hybrid path                       *)
(***************************************************************************)
\* The fraction, in 0.00001, that the engine's read of max_gas_backup_pct
\* gives for a value in 0.00001 that is a whole number of 0.0001.
EngineGasShare(value) == 10 * MaxGasBackupPct(value \div 10)

\* The fraction, in 0.00001, that _normalize_pct gives for such a value.
EngineFraction(value) == 10 * _normalize_pct(value \div 10)

\* C20 as stated: a *_pct value denotes the same fraction at every read site,
\* the one _normalize_pct gives (a value >= 1.0 divided by 100, a value below
\* 1.0 as it is): the gas budget of the hybrid program is the load times the
\* fraction the engine reads for the same max_gas_backup_pct, and the number of
\* conflict hours is that of the fraction _normalize_pct gives for conflict_pct.
C20_UniformPct ==
    (HybridReturned /\ request.payload.max_gas_backup_pct % 10 = 0) =>
        /\ GasBudget(optimization.problem)
             = (request.payload.target_load_mw * HOURS_PER_REPR
                  * EngineGasShare(request.payload.max_gas_backup_pct)) \div 100
        /\ (request.payload.conflict_pct # NoneV /\ request.payload.conflict_pct.n % 10 = 0) =>
              Cardinality(ConflictSet)
                = round(EngineFraction(request.payload.conflict_pct.n) * HOURS_PER_REPR, 100000)

\* C20: max_gas_backup_pct = 1.0 was served by the hybrid path with a gas budget
\* of the whole load, where the engine reads 1.0 as one hundredth.
C20_OneIsWhole ==
    /\ HybridReturned
    /\ request.payload.max_gas_backup_pct = 100000
    /\ response.body.solver_status = "Optimal"
    /\ GasBudget(optimization.problem)
         = request.payload.target_load_mw * HOURS_PER_REPR * 1000
    /\ MaxGasBackupPct(request.payload.max_gas_backup_pct \div 10) = 100

(***************************************************************************)
(* Properties of the priority allocation                                   *)
(***************************************************************************)
\* The model run() works on for the last request, and its allocation.
RequestBuilt == _build_model_inputs(Store(heap_before, request.payload).h, Store(heap_before, request.payload).v.a)
Allocated == Allocation(RequestBuilt.h, RequestBuilt.a)

\* The last call of the engine gave a result.
RunReturned == Called /\ response.error = "none" /\ response.body # NoneV

TheKpis == response.body.summary_kpis

Replayed(s) == [payload |-> s.v, built |-> _build_model_inputs(s.h, s.v.a), ended |-> Engine(s.h, s.v.a)]
LastCall == Replayed(Store(heap_before, request.payload))

\* The caller's payload object as the call leaves it.
PayloadAfter == Contents(LastCall.ended.h, LastCall.payload)

\* C22 as stated: the engine treats its input as read-only: run() changes
\* nothing in the merged model that was validated, and after construction and
\* run() the caller's payload object, byoc_inputs and any curtailment tier list
\* inside it included, equals what it was before the call.
C22_InputReadOnly ==
    Called =>
        /\ BuiltTree(LastCall.built) = Contents(LastCall.ended.h, Ref(LastCall.built.a))
        /\ PayloadAfter = request.payload

\* C22: a payload that brought its own tier list was accepted, and the mw of
\* its tier1 is no longer what the caller put there.
C22_CallerTiersRewritten ==
    /\ RunReturned
    /\ "curtailment" \in DOMAIN request.payload.d.byoc_inputs.d
    /\ request.payload.d.byoc_inputs.d.curtailment.d.tiers.l[1].d.mw = Num(10000)
    /\ PayloadAfter.d.byoc_inputs.d.curtailment.d.tiers.l[1].d.mw = Num(60000)

(***************************************************************************)
(* The gas share                                                           *)
(***************************************************************************)
TheMix == response.body.calculation_breakdown.resource_mix

\* C28 as stated: the firm credit of gas never exceeds F_remaining times
\* max_gas_backup_pct, F_remaining being the firm requirement still open after
\* ESA and solar, and the nameplate MW of gas is the credit divided by the ELCC
\* of gas.
C28_GasWithinShareOfRemaining ==
    RunReturned =>
        /\ TheMix.gas_firm_accredited_mw.n * 10000
             <= Allocated.remaining_firm * Allocated.max_gas_backup_pct
        /\ TheMix.gas_mw.n
             = (TheMix.gas_firm_accredited_mw.n * 10000) \div Max(Allocated.gas_elcc_share, 1)

\* C28: gas may back up half, ESA and solar leave part of the requirement
\* open, and gas is credited with all of it.
C28_GasTakesAllRemaining ==
    /\ RunReturned
    /\ Allocated.max_gas_backup_pct = 5000
    /\ Allocated.remaining_firm > 0
    /\ Allocated.remaining_firm < Allocated.gross_firm_req
    /\ TheMix.gas_firm_accredited_mw.n = Allocated.remaining_firm

(***************************************************************************)
(* POST /optimize/byog, the value lists of a job followed value by value   *)
(*                                                                         *)
(* While such a request is served run_pc is "values" (a list is in the     *)
(* making) or "search" (the lists are built, or the job is about to        *)
(* raise); run_c holds the ranges, the index of the range at hand, v and   *)
(* the list; run_tick turns with every pass of the while loop.             *)
(***************************************************************************)
\* The values of a list in the making that a state keeps: the last MaxValues.
MaxValues == 3

\* Jobs of the grid search and of the heatmap; no validation looks into
\* optimization_job (main.py:173), so any step is accepted.
ValueListJobs ==
    { MultiVariable("simple_payback_years", [goal |-> Str("minimize")], RateByLeasable),
      MultiVariable("project_irr_levered_pct", NoRest, FuelByDiscount),
      MultiVariable("project_irr_levered_pct", NoRest, <<Variable(LeaseRate, 480, 480, 0)>>),
      MultiVariable("project_irr_levered_pct", NoRest,
                    <<Variable(LeaseRate, 480, 488, 8), Variable(Leasable, 80000, 90000, 0)>>),
      MultiVariable("project_irr_levered_pct", NoRest, <<Variable(LeaseRate, 488, 480, 0)>>),
      MultiVariable("project_irr_levered_pct", NoRest,
                    <<Variable(LeaseRate, 480, 488, 8),
                      Dict([key |-> PathStr(Leasable), min |-> Num(80000), max |-> Num(90000)])>>),
      MultiVariable("project_irr_levered_pct", NoRest, <<>>),
      Heatmap([ x_axis |-> Axis(LeaseRate, 472, 488, 8),
                y_axis |-> Axis(Leasable, 80000, 90000, 10000),
                z_metric |-> Str("simple_payback_years") ]),
      Heatmap([ x_axis |-> Axis(LeaseRate, 480, 488, 8),
                y_axis |-> Axis(Leasable, 90000, 90000, 0),
                z_metric |-> Str("project_irr_levered_pct") ]),
      Heatmap([ x_axis |-> Axis(LeaseRate, 480, 488, 8),
                y_axis |-> Axis(Leasable, 80000, 90000, 10000) ]) }

ValueListRequests == { Dict(Scenario480 @@ [optimization_job |-> job]) : job \in ValueListJobs }

\* The ranges whose value lists the job builds, in the order it builds them;
\* none when a key of the job itself is missing.
RangesOf(job) ==
    IF ModeOf(job) = "multi_variable"
    THEN IF FirstMissing(job, <<"target_variable", "decision_variables">>, 1) = ""
         THEN job.decision_variables.l ELSE <<>>
    ELSE IF FirstMissing(job, <<"x_axis", "y_axis", "z_metric">>, 1) = ""
         THEN <<job.x_axis, job.y_axis>> ELSE <<>>

\* Lines 146-151 and 227-231: where the job is when it comes to the range i.
\* A range that lacks a key raises, which leaves the job to its end.
ListAt(items, i) ==
    IF i > Len(items) \/ FirstMissing(items[i].d, <<"min", "max", "step">>, 1) # ""
    THEN [pc |-> "search", c |-> NoneV]
    ELSE [pc |-> "values",
          c |-> [ranges |-> items, i |-> i, v |-> items[i].d.min.n, values |-> <<>>]]

Kept(values) == IF Len(values) > MaxValues THEN Tail(values) ELSE values

\* The request is received and the job comes to its first range.
JobBegun(tree, at) ==
    /\ run_pc = "idle"
    /\ heap_before' = heap
    /\ request' = [op |-> "optimize", payload |-> tree]
    /\ response' = Pending
    /\ evaluations' = <<>>
    /\ base_payload' = NoneV
    /\ run_pc' = at.pc
    /\ run_c' = at.c
    /\ run_tick' = 0
    /\ UNCHANGED <<heap, run_hi, run_best, optimization>>

BeginJob(tree) == JobBegun(tree, ListAt(RangesOf(tree.d.optimization_job.d), 1))

\* Lines 152-154 and 232-234: one pass of `while v <= stop + 1e-9`.
ValueAdded(range) ==
    /\ run_pc = "values"
    /\ run_c.v <= range.max.n
    /\ run_c' = [run_c EXCEPT !.v = run_c.v + range.step.n,
                              !.values = Kept(Append(run_c.values, run_c.v))]
    /\ run_tick' = 1 - run_tick
    /\ UNCHANGED <<heap, heap_before, request, response, evaluations, base_payload, run_pc,
                   run_hi, run_best, optimization>>

AddValue == run_pc = "values" /\ ValueAdded(run_c.ranges[run_c.i].d)

\* The loop condition fails: the list is built and the job comes to the next range.
ListBuilt(range, at) ==
    /\ run_pc = "values"
    /\ run_c.v > range.max.n
    /\ run_pc' = at.pc
    /\ run_c' = at.c
    /\ run_tick' = 1 - run_tick
    /\ UNCHANGED <<heap, heap_before, request, response, evaluations, base_payload,
                   run_hi, run_best, optimization>>

NextList ==
    run_pc = "values" /\ ListBuilt(run_c.ranges[run_c.i].d, ListAt(run_c.ranges, run_c.i + 1))

\* The rest of the job: the search over the lists, or the exception, and the
\* response of optimize_byog.
JobEnded(r) ==
    /\ run_pc = "search"
    /\ ~r.hang
    /\ heap' = r.h
    /\ response' = r.response
    /\ evaluations' = r.evaluations
    /\ base_payload' = r.base_payload
    /\ run_pc' = "idle"
    /\ run_c' = NoneV
    /\ run_tick' = 0
    /\ UNCHANGED <<heap_before, request, run_hi, run_best, optimization>>

EndJob == run_pc = "search" /\ JobEnded(optimize_byog(Store(heap, request.payload)))

NextValues ==
    \/ \E tree \in ValueListRequests : BeginJob(tree)
    \/ AddValue
    \/ NextList
    \/ EndJob

\* The job that has begun is somewhere, after a step of whichever kind.
Proceed ==
    /\ run_pc # "idle"
    /\ \E pc \in {"values", "search", "idle"}, tick \in {0, 1} :
          /\ run_pc' = pc
          /\ run_tick' = tick

\* A job that has begun goes on: the interpreter makes the next pass of the
\* loop, or the rest of the job, as long as the request is not answered.
SpecValues == Init /\ [][NextValues]_vars /\ WF_run_at(Proceed)

\* C23 as stated: a grid search or heatmap job that optimize/byog accepted
\* ends: each value list is built after finitely many values, and the job then
\* returns a result or raises.
C23_JobTerminates == (run_pc \in {"values", "search"}) ~> (run_pc = "idle")

\* C23: the list of a range with step 0 holds MaxValues times its min, and v is
\* still min.
C23_StepZero ==
    /\ run_pc = "values"
    /\ run_c.ranges[run_c.i].d.step = Num(0)
    /\ run_c.v = run_c.ranges[run_c.i].d.min.n
    /\ run_c.v <= run_c.ranges[run_c.i].d.max.n
    /\ Len(run_c.values) = MaxValues
    /\ \A k \in DOMAIN run_c.values : run_c.values[k] = run_c.v

(***************************************************************************)
(* Properties of the lease-rate calibration                                *)
(***************************************************************************)
\* What run() read for the last call, and its scenario at the base rate.
TheInputs == RunInputs(RequestBuilt.h, RequestBuilt.a)
BaseScenario == Scenario(TheInputs, TheInputs.base_lease_rate)

\* The condition of lines 537-540 for the last call.
CalibrationRuns == TheInputs.dynamic_lease_enabled /\ NeedsLift(TheInputs, BaseScenario)

RECURSIVE GrowthRates(_, _)
\* The rates the while loop of lines 552-565 prices from the state st on.
GrowthRates(c, st) ==
    IF st.ctl # "grow" \/ st.hi > c.max_lease THEN {}
    ELSE {st.hi} \cup GrowthRates(c, GrowStep(c, st.hi, st.best))

RECURSIVE MidRates(_, _)
\* The rates the bisection of lines 570-583 prices from the state st on.
MidRates(c, st) ==
    IF st.left = 0 THEN {}
    ELSE {(st.lo + st.hi) \div 2}
           \cup MidRates(c, BisectPass(c, st, Scenario(c, (st.lo + st.hi) \div 2)))

GrowthStart == [ctl |-> "grow", hi |-> FirstHi(TheInputs.base_lease_rate), best |-> BaseScenario]
GrowthEnd == GrowLoop(TheInputs, GrowthStart)

\* Every rate the calibration of the last call priced.
EvaluatedRates ==
    GrowthRates(TheInputs, GrowthStart)
      \cup MidRates(TheInputs, [lo |-> TheInputs.base_lease_rate,
                                hi |-> Min(GrowthEnd.hi, TheInputs.max_lease),
                                best |-> GrowthEnd.best, left |-> 40])

SomeRateMeetsTargets ==
    \E rate \in EvaluatedRates : MeetsTargets(TheInputs, Scenario(TheInputs, rate))

AppliedRate == TheKpis.applied_lease_rate_usd_per_mw_month.n
BaseRate == TheKpis.base_lease_rate_usd_per_mw_month.n

\* The scenario of the rate the result reports as applied.
AppliedScenario == Scenario(TheInputs, AppliedRate)

\* The result reports what the scenario sc holds.
ReportsScenario(sc) ==
    /\ response.body.cash_flow_waterfall = sc.rows
    /\ TheKpis.simple_payback_years = sc.payback
    /\ TheKpis.payback_period_years = sc.payback
    /\ TheKpis.positive_cashflow_years = Num(sc.positive_years)
    /\ TheKpis.project_irr_unlevered_pct = Num(sc.irr_val)

StatedLift(c, sc) ==
    c.dynamic_lease_enabled
      /\ (sc.irr_val * 10 < c.hurdle_irr + c.target_buffer
            \/ 10 * sc.positive_years < 6 * c.period_years)

C26_AppliedRateBounds ==
    RunReturned =>
        /\ BaseRate = TheInputs.base_lease_rate
        /\ BaseRate <= AppliedRate
        /\ AppliedRate <= Max(BaseRate, TheInputs.max_lease)
        /\ ~TheInputs.dynamic_lease_enabled => AppliedRate = BaseRate

\* C26: the calibration ran with a maximum lease rate no rate up to which meets
\* the targets, and the rate adopted is the highest the growth priced, at or
\* below the maximum.
C26_AdoptedBelowMax ==
    /\ RunReturned
    /\ CalibrationRuns
    /\ ~SomeRateMeetsTargets
    /\ AppliedRate > BaseRate
    /\ AppliedRate <= TheInputs.max_lease
    /\ (AppliedRate * 5) \div 4 > TheInputs.max_lease

(***************************************************************************)
(* Properties of the IRR bisection                                         *)
(***************************************************************************)
\* The state _irr_bisection starts its loop from.
Bracket(cashflows) == [low |-> -990, high |-> 3000, low_npv |-> npv(cashflows, -990), left |-> 200]

RECURSIVE BisectStates(_, _)
\* The states the loop of _irr_bisection goes through from st, st included.
BisectStates(cashflows, st) ==
    IF st.left = 0 THEN <<st>>
    ELSE <<st>> \o BisectStates(cashflows,
                                BisectStep(st, (st.low + st.high) \div 2,
                                           npv(cashflows, (st.low + st.high) \div 2)))

SameSign(cashflows) == Sign(npv(cashflows, -990)) = Sign(npv(cashflows, 3000))

\* low and high enclose a change of sign of the NPV, or are both the mid that
\* the loop returned for its NPV of zero.
SignChange(cashflows, st) ==
    \/ Sign(npv(cashflows, st.low)) # Sign(npv(cashflows, st.high))
    \/ st.low = st.high /\ npv(cashflows, st.low) = 0

\* The bisection on the series: what it returns, the states of its loop and
\* the last of them.
Bisection(cashflows, states) ==
    [ irr |-> _irr_bisection(cashflows), states |-> states, last |-> states[Len(states)] ]

\* The properties C27 states for a bisection b that found a sign change.
RootFound(cashflows, b) ==
    /\ Len(b.states) - 1 <= 200
    /\ \A k \in DOMAIN b.states : SignChange(cashflows, b.states[k])
    /\ \A k \in DOMAIN b.states : -990 <= b.states[k].low /\ b.states[k].high <= 3000
    /\ b.irr.n >= -990 /\ b.irr.n <= 3000
    /\ b.irr.n = (b.last.low + b.last.high) \div 2
    /\ npv(cashflows, b.irr.n) = 0 \/ b.last.high - b.last.low <= 1

\* The cash-flow series of the last result.
TheSeries == FinalSeries(response.body)

\* C27: the IRR bisection returns null exactly when NPV(low) and NPV(high)
\* have the same sign; otherwise it makes at most 200 halvings, keeps a change
\* of sign of the NPV between low and high at every step, and returns a rate
\* in [-0.99, 3.0] that is a midpoint whose NPV is zero or the midpoint of the
\* final interval, which encloses a root of the NPV.
C27_Bisection ==
    RunReturned =>
        /\ _irr_bisection(TheSeries) = NoneV <=> SameSign(TheSeries)
        /\ ~SameSign(TheSeries) =>
              RootFound(TheSeries, Bisection(TheSeries, BisectStates(TheSeries, Bracket(TheSeries))))

\* C27: the series of a result changes the sign of its NPV in the bracket, and
\* the bisection halved the interval more than once before it returned a rate
\* strictly inside.
C27_RootInside ==
    /\ RunReturned
    /\ ~SameSign(TheSeries)
    /\ Len(BisectStates(TheSeries, Bracket(TheSeries))) > 3
    /\ _irr_bisection(TheSeries).n > -990
    /\ _irr_bisection(TheSeries).n < 3000
    /\ TheKpis.project_irr_unlevered_pct = _irr_bisection(TheSeries)

(***************************************************************************)
(* Properties of the cash-flow rows and the payback                        *)
(***************************************************************************)
TheRows == response.body.cash_flow_waterfall

\* The cumulative balance before the year of row k.
PriorBalance(rows, cost, k) == IF k = 1 THEN -cost ELSE rows[k - 1].cumulative_cash_flow

\* The rows are those of the years 1, 2, ... in this order, each adding its
\* free cash flow to a balance that starts at minus the total project cost.
RunningBalance(rows, cost) ==
    \A k \in DOMAIN rows :
        /\ rows[k].year = k
        /\ rows[k].cumulative_cash_flow
             = PriorBalance(rows, cost, k) + rows[k].net_free_cash_flow

\* The balance is at or above zero for the first time after the year of row k.
FirstRecovered(rows, k) ==
    /\ rows[k].cumulative_cash_flow >= 0
    /\ \A j \in 1..(k - 1) : rows[j].cumulative_cash_flow < 0

\* The payback for a balance that recovers in the year of row k: the share of
\* the year's cash flow that the balance before the year still lacked.
Interpolated(rows, cost, k) ==
    (k - 1) * 1000
      + Max(0, Min(1000, ((-PriorBalance(rows, cost, k)) * 1000)
                            \div Max(rows[k].net_free_cash_flow, 1)))

\* C29: the cash-flow rows are those of the years in strictly increasing order
\* with a running cumulative balance that starts at minus the total project
\* cost; the payback is null exactly when the balance is negative after every
\* year, and otherwise lies in [y - 1, y] for the first year y whose balance is
\* at or above zero, linearly interpolated within that year.
C29_Payback ==
    RunReturned =>
        /\ RunningBalance(TheRows, TheKpis.total_project_cost_usd.n)
        /\ TheKpis.simple_payback_years = NoneV
             <=> \A k \in DOMAIN TheRows : TheRows[k].cumulative_cash_flow < 0
        /\ \A k \in DOMAIN TheRows :
              FirstRecovered(TheRows, k) =>
                 /\ TheKpis.simple_payback_years.n >= (k - 1) * 1000
                 /\ TheKpis.simple_payback_years.n <= k * 1000
                 /\ TheKpis.simple_payback_years.n
                      = Interpolated(TheRows, TheKpis.total_project_cost_usd.n, k)

\* C29: the balance of a result recovers in its second year, part of the way
\* through it.
C29_RecoveredWithinYearTwo ==
    /\ RunReturned
    /\ Len(TheRows) >= 2
    /\ FirstRecovered(TheRows, 2)
    /\ TheKpis.simple_payback_years.n > 1000
    /\ TheKpis.simple_payback_years.n < 2000


\* The charge and the discharge a dispatch totals over its steps.
ChargeTotal(v) == SumSeq([t \in 1..HOURS_PER_REPR |-> v.rows[t].batt_charge], HOURS_PER_REPR)

DischargeTotal(v) ==
    SumSeq([t \in 1..HOURS_PER_REPR |-> v.rows[t].batt_discharge], HOURS_PER_REPR)

\* The solver reported the values it left as an optimum of the program.
SolvedOptimal ==
    /\ HybridReturned
    /\ optimization.outcome.solution # NoneV
    /\ optimization.outcome.solution.status = "Optimal"

\* C30: in every solution of the program (the values of a solve that reports
\* Optimal) soc[t] = soc[t-1] + batt_charge[t] - batt_discharge[t] at every step
\* after the first, soc[first] = soc[last] + batt_charge[first] -
\* batt_discharge[first], the charge over all steps totals the discharge, and
\* 0 <= soc[t] <= batt_energy at every step.
C30_CyclicStorage ==
    SolvedOptimal =>
        LET v == Dispatched IN
        /\ \A t \in 2..HOURS_PER_REPR :
              v.rows[t].soc = v.rows[t - 1].soc + v.rows[t].batt_charge - v.rows[t].batt_discharge
        /\ v.rows[1].soc
             = v.rows[HOURS_PER_REPR].soc + v.rows[1].batt_charge - v.rows[1].batt_discharge
        /\ ChargeTotal(v) = DischargeTotal(v)
        /\ \A t \in 1..HOURS_PER_REPR : 0 <= v.rows[t].soc /\ v.rows[t].soc <= v.batt_energy

\* C30: a solution that holds charge at the last step and discharges it at the
\* first.
C30_ChargeCarriedOver ==
    /\ SolvedOptimal
    /\ Dispatched.rows[HOURS_PER_REPR].soc > 0
    /\ Dispatched.rows[1].batt_discharge > 0
    /\ ChargeTotal(Dispatched) > 0

====
